---- MODULE Spec2Model ----
(***************************************************************************)
(* Session / turn state machine of the live voice front end (src/App.tsx). *)
(* Every React ref of the component is a variable of the same name; every  *)
(* handler and every continuation of an async function (the code after an  *)
(* await) is one action.  The browser and the remote endpoint are the      *)
(* environment: they grant or deny the microphone, open, fail or close a   *)
(* connection, deliver messages, and may make a release call throw.        *)
(***************************************************************************)
EXTENDS Integers, Sequences, FiniteSets, TLC

\* Bound: how many startSession() invocations pass the guard in one run of
\* Spec and SpecSession; the specifications with restarts allow more.
MaxStarts == 1

\* Bound: stopSession() invocations that may be suspended at their await.
MaxPendingStops == 2

\* Object identities: the objects created by the n-th accepted startSession()
\* (its MediaStream, AudioContext, ScriptProcessorNode and connection) are n.
Ids == 1..(MaxStarts + 2)

\* The null of a React ref that holds an object.
NoRef == 0

\* The null of `string | null`.
Null == "<null>"

VARIABLES
  sessionState,          \* useState<LiveSessionState>
  sessionRef,            \* useRef: connection handle (NoRef or an id)
  audioContextRef,       \* useRef: AudioContext
  scriptProcessorRef,    \* useRef: ScriptProcessorNode
  micStreamRef,          \* useRef: MediaStream
  isStoppingRef,         \* useRef: the in-flight stop latch
  userInitiatedStopRef,  \* useRef: set by the Terminate button
  lastSessionErrorRef,   \* useRef: last recorded session error
  apiKey,                \* process.env.API_KEY is set and is not the placeholder
  startsLeft,            \* startSession() invocations the run may still accept
  startPc,               \* per invocation: where startSession() is suspended
  conn,                  \* per connection: state of the remote connection
  opened,                \* per connection: its onopen callback has run
  mic,                   \* per MediaStream: "none" | "live" | "stopped"
  ctx,                   \* per AudioContext: "none" | "running" | "closed"
  proc,                  \* per ScriptProcessorNode: "none" | "connected" | "disconnected"
  released,              \* per id: release calls issued on each of its objects
  closedBy,              \* per connection: who caused its close
  pendingStops,          \* stopSession() invocations suspended at `await close()`
  errorDue,              \* the message a delivered error or close calls for, or Null
  streamingTextRef,      \* useRef: the answer buffer
  questionAccumulatorRef,\* useRef: the question accumulator
  currentQuestionRef,    \* useRef: copy of currentQuestion, written by an effect
  lockedTopicRef,        \* useRef: the locked topic
  isUserAnsweringRef,    \* useRef and useState: AnsweringMode
  lastTurnWasCompleteRef,\* useRef: the previous turn was marked complete
  responseInProgressRef, \* useRef: an answer is being streamed for this turn
  activeResponse,        \* useState<TranscriptionItem | null>: the published answer
  currentQuestion,       \* useState<string>: the published question
  lastSent,              \* what the last handler sent to the remote session
  lastOp,                \* the handler (and its outcome) that ran last
  call,                  \* a text function under test: its argument and its result
  isResumeModalOpen,     \* useState: the Knowledge Context form is shown
  resumeContent,         \* useState<string>: the Knowledge Context as edited
  jarvis_resume          \* localStorage item 'jarvis_resume'

lifecycleVars == <<sessionState, sessionRef, audioContextRef, scriptProcessorRef,
                   micStreamRef, isStoppingRef, userInitiatedStopRef,
                   lastSessionErrorRef, apiKey, startsLeft, startPc, conn, opened,
                   mic, ctx, proc, released, closedBy, pendingStops, errorDue>>

\* The Knowledge Context and its form (lines 13-14), and the text function
\* under test: no session or turn handler writes them.
knowledgeVars == <<isResumeModalOpen, resumeContent, jarvis_resume, call>>

\* The turn state stopSession does not touch.
textVars == <<streamingTextRef, questionAccumulatorRef, currentQuestionRef,
              lockedTopicRef, isUserAnsweringRef, lastTurnWasCompleteRef,
              activeResponse, currentQuestion, knowledgeVars>>

turnVars == <<textVars, responseInProgressRef>>

vars == <<lifecycleVars, turnVars, lastSent, lastOp>>

----------------------------------------------------------------------------
\* User-facing messages, verbatim.

MsgApiKeyMissing == "API Key Missing: Please ensure the API_KEY environment variable is set in your project settings or secrets."

MsgMicDenied == "Microphone access is mandatory for this interface."

MsgConnRefused == "Connection refused."

MsgAuthFailed == "Authentication Failed: Invalid API Key."

MsgConnFailure == "Connection failure. Check credentials."

\* String.prototype.includes
RECURSIVE IncludesFrom(_, _, _)
IncludesFrom(s, sub, i) ==
  IF i + Len(sub) - 1 > Len(s) THEN FALSE
  ELSE IF SubSeq(s, i, i + Len(sub) - 1) = sub THEN TRUE
  ELSE IncludesFrom(s, sub, i + 1)

Includes(s, sub) == IncludesFrom(s, sub, 1)

\* onerror: the message derived from the error's text.
ErrorMsg(errText) ==
  IF Includes(errText, "401") THEN MsgAuthFailed ELSE MsgConnFailure

\* onclose: reason and code are interpolated only when truthy.
CloseMsg(reason, code) ==
  "Session closed unexpectedly"
    \o (IF reason # "" THEN " (" \o reason \o ")" ELSE "")
    \o (IF code # 0 THEN " [code " \o ToString(code) \o "]" ELSE "")
    \o ". Please initialize again."

\* onclose: the error handed to stopSession.
CloseError(reason, code) ==
  IF userInitiatedStopRef THEN Null
  ELSE IF lastSessionErrorRef # Null THEN lastSessionErrorRef
  ELSE CloseMsg(reason, code)

\* Inputs of the environment.
ErrTexts == {"Error: 401 Unauthorized", "Error: network"}

CloseReasons == {"", "quota"}

CloseCodes == {0, 1006}

\* activeResponse: null, or the item published by lines 268-274 (its id
\* and role are fixed, its timestamp is not read).
NoResponse == [present |-> FALSE, text |-> "", isComplete |-> FALSE]

Item(text, isComplete) == [present |-> TRUE, text |-> text, isComplete |-> isComplete]

Idle(err) == [isActive |-> FALSE, isConnecting |-> FALSE, error |-> err]

NoRelease == [processor |-> 0, session |-> 0, mic |-> 0, ctx |-> 0]

\* Release calls are counted up to "more than once".
Bump(rel, id, field) == [rel EXCEPT ![id][field] = IF @ < 2 THEN @ + 1 ELSE @]

----------------------------------------------------------------------------
\* Strings.  A string is a sequence of characters; a character is a string
\* of length one.

CharsOf(str) == {SubSeq(str, i, i) : i \in 1..Len(str)}

Letters == CharsOf("ABCDEFGHIJKLMNOPQRSTUVWXYZabcdefghijklmnopqrstuvwxyz")

Digits == CharsOf("0123456789")

\* What String.prototype.trim removes (of the characters the inputs use).
Whitespace == {" ", "\n", "\t"}

\* The characters \u0000-\u007F the inputs may use.
AsciiChars ==
  Letters \cup Digits \cup Whitespace \cup CharsOf("!#$%&'()*+,-./:;<=>?@[]^_{|}~")

\* Faulty variant of isEnglishLike: every fragment passes.
isEnglishLikeAny(text) == TRUE

\* lines 78-81: no character outside \u0000-\u007F.
isEnglishLike(text) == \A i \in 1..Len(text) : SubSeq(text, i, i) \in AsciiChars

RECURSIVE TrimStart(_)
TrimStart(s) ==
  IF Len(s) > 0 /\ SubSeq(s, 1, 1) \in Whitespace
  THEN TrimStart(SubSeq(s, 2, Len(s)))
  ELSE s

RECURSIVE TrimEnd(_)
TrimEnd(s) ==
  IF Len(s) > 0 /\ SubSeq(s, Len(s), Len(s)) \in Whitespace
  THEN TrimEnd(SubSeq(s, 1, Len(s) - 1))
  ELSE s

\* String.prototype.trim
Trim(s) == TrimEnd(TrimStart(s))

\* String.prototype.startsWith
StartsWith(s, prefix) ==
  Len(s) >= Len(prefix) /\ SubSeq(s, 1, Len(prefix)) = prefix

\* Length of the run of character ch at the start of s.
RECURSIVE RunLength(_, _)
RunLength(s, ch) ==
  IF Len(s) > 0 /\ SubSeq(s, 1, 1) = ch
  THEN 1 + RunLength(SubSeq(s, 2, Len(s)), ch)
  ELSE 0

\* Length of the part of s before its first line feed.
RECURSIVE LineLength(_)
LineLength(s) ==
  IF Len(s) = 0 \/ SubSeq(s, 1, 1) = "\n"
  THEN 0
  ELSE 1 + LineLength(SubSeq(s, 2, Len(s)))

\* rawText.split('\n')
RECURSIVE SplitLines(_)
SplitLines(s) ==
  LET n == LineLength(s) IN
  IF n = Len(s) THEN <<s>>
  ELSE <<SubSeq(s, 1, n)>> \o SplitLines(SubSeq(s, n + 2, Len(s)))

\* lines.join('\n')
RECURSIVE JoinLines(_)
JoinLines(lines) ==
  IF Len(lines) = 0 THEN ""
  ELSE IF Len(lines) = 1 THEN lines[1]
  ELSE lines[1] \o "\n" \o JoinLines(Tail(lines))

\* lines 51-55: the prefixes of leaked directive lines.
ControlPrefixes ==
  {"AUTO TASK:", "Topic lock:", "Do not change topic.",
   "Do not restart from scratch.", "Expand the current explanation"}

\* Faulty variant of IsDirective: the line is not trimmed first.
IsDirectiveUntrimmed(line) == \E prefix \in ControlPrefixes : StartsWith(line, prefix)

\* lines 49-56: the filter keeps a line unless its trimmed text starts with a
\* control prefix.
IsDirective(line) == \E prefix \in ControlPrefixes : StartsWith(Trim(line), prefix)

\* line 59: .replace(/\n{3,}/g, '\n\n')
RECURSIVE CollapseBlankLines(_)
CollapseBlankLines(s) ==
  IF Len(s) = 0 THEN s
  ELSE LET n == RunLength(s, "\n") IN
       IF n >= 3 THEN "\n\n" \o CollapseBlankLines(SubSeq(s, n + 1, Len(s)))
       ELSE IF n > 0 THEN SubSeq(s, 1, n) \o CollapseBlankLines(SubSeq(s, n + 1, Len(s)))
       ELSE SubSeq(s, 1, 1) \o CollapseBlankLines(SubSeq(s, 2, Len(s)))

\* lines 45-61
sanitizeModelOutput(rawText) ==
  Trim(CollapseBlankLines(JoinLines(
    SelectSeq(SplitLines(rawText), LAMBDA line : ~IsDirective(line)))))

\* lines 63-76
appendChunkWithSpacing(current, chunk) ==
  IF current = "" THEN chunk
  ELSE IF chunk = "" THEN current
  ELSE LET prevChar == SubSeq(current, Len(current), Len(current))
           nextChar == SubSeq(chunk, 1, 1)
           needsSpace == /\ prevChar \in Letters \cup Digits \cup {")"}
                         /\ nextChar \in Letters \cup Digits \cup {"("}
                         /\ prevChar # "\n"
                         /\ nextChar # "\n"
       IN IF needsSpace THEN current \o " " \o chunk ELSE current \o chunk

\* line 228: the warning shown instead of a non-English fragment.
MsgEnglishOnly == "English only input detected. Please speak in English."

\* line 91: the topic of a continuation request when none is locked.
DefaultTopic == "Use the most recent user discussion context."

----------------------------------------------------------------------------
InitProgram(starts) ==
  /\ sessionState = Idle(Null)
  /\ sessionRef = NoRef
  /\ audioContextRef = NoRef
  /\ scriptProcessorRef = NoRef
  /\ micStreamRef = NoRef
  /\ isStoppingRef = FALSE
  /\ userInitiatedStopRef = FALSE
  /\ lastSessionErrorRef = Null
  /\ apiKey \in BOOLEAN
  /\ startsLeft = starts
  /\ startPc = [i \in Ids |-> "new"]
  /\ conn = [i \in Ids |-> "none"]
  /\ opened = [i \in Ids |-> FALSE]
  /\ mic = [i \in Ids |-> "none"]
  /\ ctx = [i \in Ids |-> "none"]
  /\ proc = [i \in Ids |-> "none"]
  /\ released = [i \in Ids |-> NoRelease]
  /\ closedBy = [i \in Ids |-> "nobody"]
  /\ pendingStops = <<>>
  /\ errorDue = Null
  /\ streamingTextRef = ""
  /\ questionAccumulatorRef = ""
  /\ currentQuestionRef = ""
  /\ lockedTopicRef = ""
  /\ isUserAnsweringRef = FALSE
  /\ lastTurnWasCompleteRef = TRUE
  /\ responseInProgressRef = FALSE
  /\ activeResponse = NoResponse
  /\ currentQuestion = ""
  /\ lastSent = <<>>
  /\ lastOp = [op |-> "init", outcome |-> "done", id |-> NoRef]
  /\ isResumeModalOpen = FALSE
  /\ jarvis_resume = ""
  /\ resumeContent = jarvis_resume

\* No text function is under test.
NoCall == [fn |-> "none", arg |-> <<>>, done |-> FALSE, result |-> <<>>]

InitWith(starts) == InitProgram(starts) /\ call = NoCall

Init == InitWith(MaxStarts)

InitRestart == InitWith(MaxStarts + 1)

----------------------------------------------------------------------------
\* stopSession (src/App.tsx 141-176)

Op(name, outcome, id) == [op |-> name, outcome |-> outcome, id |-> id]

\* Mutant of StopRejected: the latch is never consulted.
StopRejectedNoLatch == FALSE

\* line 142: `if (isStoppingRef.current) return;`
StopRejected == isStoppingRef

\* Where a release call of stopSession may throw: nowhere, in
\* scriptProcessor.disconnect(), or in session.close().  (The rejection of
\* `await audioContext.close()` is an outcome of StopResume.)
ThrowPoints == {"none", "disconnect", "close"}

\* Faulty variant of StopFinally: the latch stays set when the body is left.
StopFinallySkipped == isStoppingRef' = TRUE

\* lines 173-175: `finally { isStoppingRef.current = false; }`
StopFinally == isStoppingRef' = FALSE

\* Faulty variant of StopFinish: the in-progress flag is left as it is.
StopFinishKeepsFlag(error, lse) ==
  /\ lastSessionErrorRef' = (IF error # Null THEN error ELSE lse)
  /\ sessionState' = Idle(error)
  /\ UNCHANGED responseInProgressRef
  /\ StopFinally

\* lines 167-172 and the finally of 173-175: the code after the release steps.
StopFinish(error, lse) ==
  /\ lastSessionErrorRef' = (IF error # Null THEN error ELSE lse)
  /\ sessionState' = Idle(error)
  /\ responseInProgressRef' = FALSE
  /\ StopFinally

\* One call of stopSession(opts), up to its first await or its end.
\*   lse      lastSessionErrorRef as the caller left it
\*   connNow  the connections as the caller's event left them
\*   throwAt  the release call that throws in this run
\*   origin   the caller: "userStop", "onerror" or "onclose"
StopSession(opts, lse, connNow, throwAt, origin, id) ==
  LET p == scriptProcessorRef
      s == sessionRef
      m == micStreamRef
      c == audioContextRef
      doA == p # NoRef
      doB == s # NoRef /\ ~opts.initiatedByClose
      doC == m # NoRef
      procA == IF doA THEN [proc EXCEPT ![p] = "disconnected"] ELSE proc
      relA == IF doA THEN Bump(released, p, "processor") ELSE released
      connB == IF doB
               THEN [connNow EXCEPT ![s] =
                       IF @ \in {"connecting", "open", "errored"} THEN "closing" ELSE @]
               ELSE connNow
      byB == IF doB /\ closedBy[s] = "nobody" /\ connNow[s] \in {"connecting", "open"}
             THEN [closedBy EXCEPT ![s] = origin]
             ELSE closedBy
      relB == IF doB THEN Bump(relA, s, "session") ELSE relA
      micC == IF doC THEN [mic EXCEPT ![m] = "stopped"] ELSE mic
      relC == IF doC THEN Bump(relB, m, "mic") ELSE relB
  IN
  IF StopRejected THEN
       /\ throwAt = "none"
       /\ lastSessionErrorRef' = lse
       /\ conn' = connNow
       /\ lastOp' = Op(origin, "ignored", id)
       /\ lastSent' = <<>>
       /\ UNCHANGED <<sessionState, sessionRef, audioContextRef, scriptProcessorRef,
                      micStreamRef, isStoppingRef, mic, ctx, proc, released,
                      closedBy, pendingStops, responseInProgressRef>>
  ELSE IF throwAt = "disconnect" THEN
       \* disconnect() throws: the finally clears the latch, nothing else ran
       /\ doA
       /\ lastSessionErrorRef' = lse
       /\ conn' = connNow
       /\ StopFinally
       /\ lastOp' = Op(origin, "threw", id)
       /\ lastSent' = <<>>
       /\ UNCHANGED <<sessionState, sessionRef, audioContextRef, scriptProcessorRef,
                      micStreamRef, mic, ctx, proc, released, closedBy,
                      pendingStops, responseInProgressRef>>
  ELSE IF throwAt = "close" THEN
       \* close() throws after the processor was released
       /\ doB
       /\ scriptProcessorRef' = NoRef
       /\ proc' = procA
       /\ released' = relA
       /\ lastSessionErrorRef' = lse
       /\ conn' = connNow
       /\ StopFinally
       /\ lastOp' = Op(origin, "threw", id)
       /\ lastSent' = <<>>
       /\ UNCHANGED <<sessionState, sessionRef, audioContextRef, micStreamRef,
                      mic, ctx, closedBy, pendingStops, responseInProgressRef>>
  ELSE
       /\ scriptProcessorRef' = NoRef
       /\ proc' = procA
       /\ sessionRef' = NoRef
       /\ conn' = connB
       /\ closedBy' = byB
       /\ micStreamRef' = NoRef
       /\ mic' = micC
       /\ IF c # NoRef
          THEN \* `await audioContextRef.current.close()`: suspended
               /\ Len(pendingStops) < MaxPendingStops
               /\ released' = Bump(relC, c, "ctx")
               /\ pendingStops' = Append(pendingStops,
                                         [error |-> opts.error, origin |-> origin,
                                          id |-> id, ctx |-> c])
               /\ isStoppingRef' = TRUE
               /\ lastSessionErrorRef' = lse
               /\ lastOp' = Op(origin, "awaiting", id)
               /\ lastSent' = <<>>
               /\ UNCHANGED <<sessionState, audioContextRef, ctx, responseInProgressRef>>
          ELSE /\ released' = relC
               /\ StopFinish(opts.error, lse)
               /\ lastOp' = Op(origin, "done", id)
               /\ lastSent' = <<>>
               /\ UNCHANGED <<audioContextRef, ctx, pendingStops>>

RemoveAt(seq, k) == SubSeq(seq, 1, k - 1) \o SubSeq(seq, k + 1, Len(seq))

\* The continuation of stopSession after `await audioContextRef.current.close()`
\* (lines 163-175): the close resolved, or it rejected and only the finally runs.
StopResume(k, ok) ==
  LET r == pendingStops[k] IN
  /\ pendingStops' = RemoveAt(pendingStops, k)
  /\ IF ok
     THEN /\ ctx' = [ctx EXCEPT ![r.ctx] = "closed"]
          /\ audioContextRef' = NoRef
          /\ StopFinish(r.error, lastSessionErrorRef)
          /\ lastOp' = Op(r.origin, "done", r.id)
          /\ lastSent' = <<>>
          /\ UNCHANGED released
     ELSE \* the close failed: the context is as it was before the call
          /\ released' = [released EXCEPT ![r.ctx].ctx = @ - 1]
          /\ StopFinally
          /\ lastOp' = Op(r.origin, "threw", r.id)
          /\ lastSent' = <<>>
          /\ UNCHANGED <<ctx, audioContextRef, lastSessionErrorRef, sessionState,
                         responseInProgressRef>>
  /\ UNCHANGED <<sessionRef, scriptProcessorRef, micStreamRef, userInitiatedStopRef,
                 apiKey, startsLeft, startPc, conn, opened, mic, proc, closedBy,
                 errorDue, textVars>>

\* Terminate button (line 385), shown while sessionState.isActive.
UserStop(throwAt) ==
  /\ sessionState.isActive
  /\ userInitiatedStopRef' = TRUE
  /\ StopSession([error |-> Null, initiatedByClose |-> FALSE],
                 lastSessionErrorRef, conn, throwAt, "userStop", NoRef)
  /\ UNCHANGED <<apiKey, startsLeft, startPc, opened, errorDue, textVars>>

\* onerror callback of connection i (lines 286-291).
OnError(i, errText, throwAt) ==
  /\ conn[i] \in {"connecting", "open"}
  /\ StopSession([error |-> ErrorMsg(errText), initiatedByClose |-> FALSE],
                 ErrorMsg(errText), [conn EXCEPT ![i] = "errored"],
                 throwAt, "onerror", i)
  /\ errorDue' = ErrorMsg(errText)
  /\ UNCHANGED <<userInitiatedStopRef, apiKey, startsLeft, startPc, opened, textVars>>

\* onclose callback of connection i (lines 292-300).
OnClose(i, reason, code, throwAt) ==
  /\ conn[i] \in {"connecting", "open", "errored", "closing"}
  /\ userInitiatedStopRef' = FALSE
  /\ StopSession([error |-> CloseError(reason, code), initiatedByClose |-> TRUE],
                 lastSessionErrorRef, [conn EXCEPT ![i] = "closed"],
                 throwAt, "onclose", i)
  /\ errorDue' = (IF closedBy[i] = "userStop" THEN errorDue
                  ELSE IF lastSessionErrorRef # Null THEN lastSessionErrorRef
                  ELSE CloseMsg(reason, code))
  /\ UNCHANGED <<apiKey, startsLeft, startPc, opened, textVars>>

\* The dismiss button of the error banner (line 459).  It acknowledges what
\* was delivered so far, unless a stopSession is still to publish its message.
Dismiss ==
  /\ sessionState.error # Null
  /\ sessionState' = [sessionState EXCEPT !.error = Null]
  /\ errorDue' = (IF pendingStops = <<>> THEN Null ELSE errorDue)
  /\ lastOp' = Op("dismiss", "done", NoRef)
  /\ lastSent' = <<>>
  /\ UNCHANGED <<sessionRef, audioContextRef, scriptProcessorRef, micStreamRef,
                 isStoppingRef, userInitiatedStopRef, lastSessionErrorRef, apiKey,
                 startsLeft, startPc, conn, opened, mic, ctx, proc, released, closedBy,
                 pendingStops, turnVars>>

----------------------------------------------------------------------------
\* startSession (src/App.tsx 178-338)

\* line 179: `if (sessionState.isConnecting || sessionState.isActive) return;`
StartRejected == sessionState.isConnecting \/ sessionState.isActive

\* Mutant of CatchMsg: every failure is reported as a refused connection.
CatchMsgAlwaysRefused(errName) == MsgConnRefused

\* lines 334-335: the message of the catch block, from the error's name.
CatchMsg(errName) ==
  IF errName = "NotAllowedError" THEN MsgMicDenied ELSE MsgConnRefused

\* Names of the errors getUserMedia rejects with.
MicErrNames == {"NotAllowedError", "NotFoundError"}

\* The identity of the objects the next accepted startSession() creates.
NextId == Cardinality({i \in Ids : startPc[i] # "new"}) + 1

\* Initialize button (line 385; the button calls startSession while the session
\* is not active), up to the first await (lines 179-196).
StartSession ==
  /\ ~sessionState.isActive
  /\ IF StartRejected THEN
          /\ lastOp' = Op("start", "ignored", NoRef)
          /\ lastSent' = <<>>
          /\ UNCHANGED <<lifecycleVars, turnVars>>
     ELSE /\ userInitiatedStopRef' = FALSE
          /\ lastSessionErrorRef' = Null
          /\ errorDue' = Null
          /\ IF ~apiKey
             THEN /\ sessionState' = Idle(MsgApiKeyMissing)
                  /\ lastOp' = Op("start", "noKey", NoRef)
                  /\ lastSent' = <<>>
                  /\ UNCHANGED <<startsLeft, startPc>>
             ELSE /\ startsLeft > 0
                  /\ sessionState' = [isActive |-> FALSE, isConnecting |-> TRUE,
                                      error |-> Null]
                  /\ startsLeft' = startsLeft - 1
                  /\ startPc' = [startPc EXCEPT ![NextId] = "awaitMic"]
                  /\ lastOp' = Op("start", "awaitMic", NextId)
                  /\ lastSent' = <<>>
          /\ UNCHANGED <<sessionRef, audioContextRef, scriptProcessorRef, micStreamRef,
                         isStoppingRef, apiKey, conn, opened, mic, ctx, proc,
                         released, closedBy, pendingStops, turnVars>>

\* The catch block (lines 332-337).
StartCatch(i, errName) ==
  /\ sessionState' = Idle(CatchMsg(errName))
  /\ startPc' = [startPc EXCEPT ![i] = "done"]
  /\ lastOp' = Op("start", errName, i)
  /\ lastSent' = <<>>

\* getUserMedia resolved (lines 196-200): the stream is stored, the audio
\* context is created and its resume() awaited.
MicGranted(i) ==
  /\ startPc[i] = "awaitMic"
  /\ micStreamRef' = i
  /\ mic' = [mic EXCEPT ![i] = "live"]
  /\ ctx' = [ctx EXCEPT ![i] = "running"]
  /\ startPc' = [startPc EXCEPT ![i] = "awaitResume"]
  /\ lastOp' = Op("start", "awaitResume", i)
  /\ lastSent' = <<>>
  /\ UNCHANGED errorDue
  /\ UNCHANGED <<sessionState, sessionRef, audioContextRef, scriptProcessorRef,
                 isStoppingRef, userInitiatedStopRef, lastSessionErrorRef, apiKey,
                 startsLeft, conn, opened, proc, released, closedBy, pendingStops,
                 turnVars>>

\* getUserMedia rejected (line 196, then the catch).
MicRejected(i, errName) ==
  /\ startPc[i] = "awaitMic"
  /\ StartCatch(i, errName)
  /\ UNCHANGED errorDue
  /\ UNCHANGED <<sessionRef, audioContextRef, scriptProcessorRef, micStreamRef,
                 isStoppingRef, userInitiatedStopRef, lastSessionErrorRef, apiKey,
                 startsLeft, conn, opened, mic, ctx, proc, released, closedBy,
                 pendingStops, turnVars>>

\* inputCtx.resume() resolved (lines 200-331): the context is stored, the
\* connection is requested and its promise awaited.
ResumeResolved(i) ==
  /\ startPc[i] = "awaitResume"
  /\ audioContextRef' = i
  /\ conn' = [conn EXCEPT ![i] = "connecting"]
  /\ startPc' = [startPc EXCEPT ![i] = "awaitSession"]
  /\ lastOp' = Op("start", "awaitSession", i)
  /\ lastSent' = <<>>
  /\ UNCHANGED errorDue
  /\ UNCHANGED <<sessionState, sessionRef, scriptProcessorRef, micStreamRef,
                 isStoppingRef, userInitiatedStopRef, lastSessionErrorRef, apiKey,
                 startsLeft, opened, mic, ctx, proc, released, closedBy, pendingStops,
                 turnVars>>

\* inputCtx.resume() rejected (line 200, then the catch): the microphone
\* stream was acquired before.
ResumeRejected(i) ==
  /\ startPc[i] = "awaitResume"
  /\ StartCatch(i, "InvalidStateError")
  /\ UNCHANGED errorDue
  /\ UNCHANGED <<sessionRef, audioContextRef, scriptProcessorRef, micStreamRef,
                 isStoppingRef, userInitiatedStopRef, lastSessionErrorRef, apiKey,
                 startsLeft, conn, opened, mic, ctx, proc, released, closedBy,
                 pendingStops, turnVars>>

\* Faulty variant of OpenStatus: the Connecting flag is left set.
OpenStatusStillConnecting == [isActive |-> TRUE, isConnecting |-> TRUE, error |-> Null]

\* line 207: the status onopen publishes.
OpenStatus == [isActive |-> TRUE, isConnecting |-> FALSE, error |-> Null]

\* onopen callback of connection i (lines 206-220).
OnOpen(i) ==
  /\ conn[i] = "connecting"
  /\ conn' = [conn EXCEPT ![i] = "open"]
  /\ opened' = [opened EXCEPT ![i] = TRUE]
  /\ sessionState' = OpenStatus
  /\ proc' = [proc EXCEPT ![i] = "connected"]
  /\ scriptProcessorRef' = i
  /\ lastOp' = Op("onopen", "done", i)
  /\ lastSent' = <<>>
  /\ UNCHANGED errorDue
  /\ UNCHANGED <<sessionRef, audioContextRef, micStreamRef, isStoppingRef,
                 userInitiatedStopRef, lastSessionErrorRef, apiKey, startsLeft, startPc,
                 mic, ctx, released, closedBy, pendingStops, turnVars>>

\* The connection promise resolved (line 331): the handle is stored.
SessionResolved(i) ==
  /\ startPc[i] = "awaitSession"
  /\ opened[i]
  /\ sessionRef' = i
  /\ startPc' = [startPc EXCEPT ![i] = "done"]
  /\ lastOp' = Op("start", "resolved", i)
  /\ lastSent' = <<>>
  /\ UNCHANGED errorDue
  /\ UNCHANGED <<sessionState, audioContextRef, scriptProcessorRef, micStreamRef,
                 isStoppingRef, userInitiatedStopRef, lastSessionErrorRef, apiKey,
                 startsLeft, conn, opened, mic, ctx, proc, released, closedBy,
                 pendingStops, turnVars>>

\* The connection promise rejected (line 331, then the catch): the connection
\* never opened.
SessionRejected(i) ==
  /\ startPc[i] = "awaitSession"
  /\ ~opened[i]
  /\ conn[i] # "open"
  /\ conn' = [conn EXCEPT ![i] = IF @ = "connecting" THEN "closed" ELSE @]
  /\ StartCatch(i, "Error")
  /\ UNCHANGED errorDue
  /\ UNCHANGED <<sessionRef, audioContextRef, scriptProcessorRef, micStreamRef,
                 isStoppingRef, userInitiatedStopRef, lastSessionErrorRef, apiKey,
                 startsLeft, opened, mic, ctx, proc, released, closedBy, pendingStops,
                 turnVars>>

----------------------------------------------------------------------------
\* Turn handling (src/App.tsx 83-127, 221-285)

\* Bound: longest question the accumulator may reach in a run.
MaxQuestionLen == 2

\* Bound: longest answer the buffer may reach in a run.
MaxAnswerLen == 4

\* Fragments holding a character outside \u0000-\u007F.
ForeignFragments == {"é"}

\* Transcription fragments the remote may deliver ("" is none); the last one
\* holds a character outside \u0000-\u007F.
Fragments == {"", "H"} \cup ForeignFragments

\* Generated-text chunks the remote may deliver ("" is none); the last one
\* is a leaked directive line, which sanitizes to the empty string.
Chunks == {"", "A", "AUTO TASK: x"}

\* The effect of lines 41-43: currentQuestionRef follows currentQuestion
\* after the render that a setCurrentQuestion caused.
SyncQuestionRef ==
  /\ currentQuestionRef # currentQuestion
  /\ currentQuestionRef' = currentQuestion
  /\ lastOp' = Op("effect", "done", NoRef)
  /\ lastSent' = <<>>
  /\ UNCHANGED <<lifecycleVars, streamingTextRef, questionAccumulatorRef,
                 lockedTopicRef, isUserAnsweringRef, lastTurnWasCompleteRef,
                 responseInProgressRef, activeResponse, currentQuestion,
                 knowledgeVars>>

\* lines 83-102: the continuation request, as sent (or not) by triggerAutoAnswer
\* with the locked topic `locked`.
triggerAutoAnswer(locked) ==
  IF sessionRef = NoRef \/ ~sessionState.isActive THEN <<>>
  ELSE LET lockedTopic == IF locked # "" THEN locked ELSE currentQuestionRef IN
       <<[to |-> sessionRef, kind |-> "continuation",
          topic |-> IF lockedTopic # "" THEN lockedTopic ELSE DefaultTopic]>>

\* Faulty variant of PublishedOnEnter: a placeholder that is not in the
\* buffer is published, as an earlier version of the handler did.
PublishedOnEnterPlaceholder == Item("[TECHNICAL_DEFINITION]\nGenerating...", FALSE)

\* lines 109-115: entering AnsweringMode publishes no answer item; the one
\* on display stays.
PublishedOnEnter == activeResponse

\* lines 104-127.  Leaving the mode stops at line 123, which reads the
\* undeclared identifier currentTurnTextRef: the ReferenceError leaves lines
\* 124-125 unexecuted.
toggleAnsweringMode ==
  LET next == ~isUserAnsweringRef
      latestTopic == IF Trim(currentQuestionRef) # "" THEN Trim(currentQuestionRef)
                     ELSE Trim(lockedTopicRef)
      locked == IF latestTopic # "" THEN latestTopic ELSE lockedTopicRef
  IN
  /\ isUserAnsweringRef' = next
  /\ IF next
     THEN /\ lockedTopicRef' = locked
          /\ responseInProgressRef' = FALSE
          /\ lastSent' = triggerAutoAnswer(locked)
          /\ lastOp' = Op("toggle", "on", NoRef)
          /\ activeResponse' = PublishedOnEnter
          /\ UNCHANGED <<streamingTextRef, questionAccumulatorRef, currentQuestionRef,
                         lastTurnWasCompleteRef, currentQuestion>>
     ELSE /\ currentQuestion' = ""
          /\ activeResponse' = NoResponse
          /\ questionAccumulatorRef' = ""
          /\ currentQuestionRef' = ""
          /\ streamingTextRef' = ""
          /\ lastSent' = <<>>
          /\ lastOp' = Op("toggle", "off", NoRef)
          /\ UNCHANGED <<lockedTopicRef, responseInProgressRef, lastTurnWasCompleteRef>>
  /\ UNCHANGED <<lifecycleVars, knowledgeVars>>

\* Faulty variant of AudioSuppressed: frames are always forwarded.
AudioSuppressedNever == FALSE

\* line 213: `if (isUserAnsweringRef.current) return;`
AudioSuppressed == isUserAnsweringRef

\* onaudioprocess of the processor that onopen of connection i created
\* (lines 211-217): unless suppressed, one audio frame is handed to the
\* session of that connection.  The node delivers frames only while its
\* AudioContext is running.
OnAudioProcess(i) ==
  /\ proc[i] = "connected"
  /\ ctx[i] = "running"
  /\ IF AudioSuppressed
     THEN /\ lastSent' = <<>>
          /\ lastOp' = Op("audio", "suppressed", i)
     ELSE /\ lastSent' = <<[to |-> i, kind |-> "media", topic |-> ""]>>
          /\ lastOp' = Op("audio", "sent", i)
  /\ UNCHANGED <<lifecycleVars, turnVars>>

\* Faulty variant of NewTurn: a fragment never starts a new turn.
NewTurnNever(takesFrag) == FALSE

\* line 232: an accepted fragment starts a new turn when the previous turn
\* was marked complete.
NewTurn(takesFrag) == takesFrag /\ lastTurnWasCompleteRef

\* Faulty variant of LockAtTurnComplete: the reference is copied even when
\* it is empty.
LockAtTurnCompleteAlways(lock1) == currentQuestionRef

\* lines 280-282: the locked topic after a turn-complete signal, `lock1`
\* being its value before.
LockAtTurnComplete(lock1) ==
  IF currentQuestionRef # "" THEN currentQuestionRef ELSE lock1

\* Faulty variant of NewAnswerBase: a new answer replaces the old one.
NewAnswerBaseReplace(st1) ==
  IF isUserAnsweringRef /\ ~responseInProgressRef THEN "" ELSE st1

\* lines 263-265: in AnsweringMode a blank line is put after the existing
\* answer `st1` before the first chunk of a new answer.
NewAnswerBase(st1) ==
  IF isUserAnsweringRef /\ ~responseInProgressRef /\ st1 # ""
  THEN st1 \o "\n\n" ELSE st1

\* onmessage callback of connection i (lines 221-285) for a message carrying
\* the transcription fragment `frag`, the generated text `chunk` and, when
\* `tc`, the turn-complete signal.
onmessage(i, frag, chunk, tc) ==
  LET takesFrag == frag # "" /\ ~isUserAnsweringRef
      newTurn == NewTurn(takesFrag)
      \* lines 232-244
      q1 == IF takesFrag
            THEN (IF newTurn THEN "" ELSE questionAccumulatorRef) \o frag
            ELSE questionAccumulatorRef
      cq1 == IF takesFrag THEN q1 ELSE currentQuestion
      lock1 == IF takesFrag THEN q1 ELSE lockedTopicRef
      st1 == IF newTurn /\ ~isUserAnsweringRef THEN "" ELSE streamingTextRef
      ar1 == IF newTurn /\ ~isUserAnsweringRef THEN NoResponse ELSE activeResponse
      ltc1 == IF takesFrag THEN FALSE ELSE lastTurnWasCompleteRef
      \* lines 258-275
      cleanedChunk == sanitizeModelOutput(chunk)
      takesChunk == chunk # "" /\ cleanedChunk # ""
      base == NewAnswerBase(st1)
      st2 == IF takesChunk THEN appendChunkWithSpacing(base, cleanedChunk) ELSE st1
      ar2 == IF takesChunk THEN Item(st2, FALSE) ELSE ar1
      ip2 == IF takesChunk THEN TRUE ELSE responseInProgressRef
      \* line 260: `if (!cleanedChunk) return;` skips the turn-complete part
      reachesTc == tc /\ (chunk = "" \/ cleanedChunk # "")
  IN
  /\ conn[i] = "open"
  /\ frag # "" \/ chunk # "" \/ tc
  /\ IF takesFrag /\ ~isEnglishLike(frag)
     THEN \* lines 227-230: the warning is shown and the handler returns
          /\ currentQuestion' = MsgEnglishOnly
          /\ lastOp' = Op("onmessage", "rejected", i)
          /\ UNCHANGED <<streamingTextRef, questionAccumulatorRef, lockedTopicRef,
                         lastTurnWasCompleteRef, responseInProgressRef, activeResponse>>
     ELSE /\ questionAccumulatorRef' = q1
          /\ currentQuestion' = cq1
          /\ streamingTextRef' = st2
          /\ IF reachesTc
             THEN \* lines 277-284
                  /\ lastTurnWasCompleteRef' = TRUE
                  /\ responseInProgressRef' = FALSE
                  /\ lockedTopicRef' = LockAtTurnComplete(lock1)
                  /\ activeResponse' = (IF ar2.present
                                        THEN [ar2 EXCEPT !.isComplete = TRUE]
                                        ELSE NoResponse)
             ELSE /\ lastTurnWasCompleteRef' = ltc1
                  /\ responseInProgressRef' = ip2
                  /\ lockedTopicRef' = lock1
                  /\ activeResponse' = ar2
          /\ lastOp' = Op("onmessage",
                          IF takesChunk THEN "chunk"
                          ELSE IF chunk # "" THEN "emptyChunk"
                          ELSE IF takesFrag THEN "fragment"
                          ELSE IF tc THEN "turnComplete" ELSE "nothing", i)
  /\ lastSent' = <<>>
  /\ UNCHANGED <<lifecycleVars, currentQuestionRef, isUserAnsweringRef,
                 isResumeModalOpen, resumeContent, jarvis_resume>>

\* A message is delivered to onmessage while the question and the answer
\* stay within the bounds.
OnMessage(i, frag, chunk, tc) ==
  /\ onmessage(i, frag, chunk, tc)
  /\ Len(questionAccumulatorRef') <= MaxQuestionLen
  /\ Len(streamingTextRef') <= MaxAnswerLen
  /\ UNCHANGED call

----------------------------------------------------------------------------
\* The handlers and continuations of the session lifecycle.  They do not
\* read the text state, and the turn handlers read of the lifecycle only
\* sessionRef, sessionState.isActive and whether a connection is open.
NextSession ==
  \/ StartSession
  \/ \E i \in Ids : MicGranted(i)
  \/ \E i \in Ids : \E e \in MicErrNames : MicRejected(i, e)
  \/ \E i \in Ids : ResumeResolved(i)
  \/ \E i \in Ids : ResumeRejected(i)
  \/ \E i \in Ids : OnOpen(i)
  \/ \E i \in Ids : SessionResolved(i)
  \/ \E i \in Ids : SessionRejected(i)
  \/ \E i \in Ids : \E t \in ErrTexts : \E throwAt \in ThrowPoints :
       OnError(i, t, throwAt)
  \/ \E i \in Ids : \E r \in CloseReasons : \E c \in CloseCodes :
       \E throwAt \in ThrowPoints : OnClose(i, r, c, throwAt)
  \/ \E throwAt \in ThrowPoints : UserStop(throwAt)
  \/ \E k \in 1..Len(pendingStops) : \E ok \in BOOLEAN : StopResume(k, ok)
  \/ Dismiss

\* The turn handlers.
NextTurn ==
  \/ toggleAnsweringMode
  \/ SyncQuestionRef
  \/ \E i \in Ids : OnAudioProcess(i)
  \/ \E i \in Ids : \E f \in Fragments : \E c \in Chunks : \E tc \in BOOLEAN :
       OnMessage(i, f, c, tc)

\* The session lifecycle on its fault-free path: a start that succeeds, a
\* user stop whose release calls succeed, and the close that follows it.
NextSessionPlain ==
  \/ StartSession
  \/ \E i \in Ids : MicGranted(i)
  \/ \E i \in Ids : ResumeResolved(i)
  \/ \E i \in Ids : OnOpen(i)
  \/ \E i \in Ids : SessionResolved(i)
  \/ \E i \in Ids : OnClose(i, "", 0, "none")
  \/ UserStop("none")
  \/ \E k \in 1..Len(pendingStops) : StopResume(k, TRUE)

\* The session lifecycle when no release call throws or rejects.
NextSessionNoThrow ==
  \/ StartSession
  \/ \E i \in Ids : MicGranted(i)
  \/ \E i \in Ids : \E e \in MicErrNames : MicRejected(i, e)
  \/ \E i \in Ids : ResumeResolved(i)
  \/ \E i \in Ids : ResumeRejected(i)
  \/ \E i \in Ids : OnOpen(i)
  \/ \E i \in Ids : SessionResolved(i)
  \/ \E i \in Ids : SessionRejected(i)
  \/ \E i \in Ids : \E t \in ErrTexts : OnError(i, t, "none")
  \/ \E i \in Ids : \E r \in CloseReasons : \E c \in CloseCodes :
       OnClose(i, r, c, "none")
  \/ UserStop("none")
  \/ \E k \in 1..Len(pendingStops) : StopResume(k, TRUE)
  \/ Dismiss

Next == NextSession \/ NextTurn

\* The whole component.
Spec == Init /\ [][Next]_vars

\* The session lifecycle alone, with every fault of the environment.
SpecSession == Init /\ [][NextSession]_vars

\* The session lifecycle alone, with a restart.
SpecRestart == InitRestart /\ [][NextSession]_vars

\* The session lifecycle alone, no release call failing.
SpecNoThrow == Init /\ [][NextSessionNoThrow]_vars

\* The same, with a restart.
SpecNoThrowRestart == InitRestart /\ [][NextSessionNoThrow]_vars

\* The fault-free path of the lifecycle with two restarts.
InitTwoRestarts == InitWith(MaxStarts + 2)

SpecTwoRestarts == InitTwoRestarts /\ [][NextSessionPlain]_vars

\* The turn handlers over the fault-free session lifecycle.
SpecTurn == Init /\ [][NextSessionPlain \/ NextTurn]_vars

----------------------------------------------------------------------------
\* The text functions on their own.  The component is in its state after
\* construction; `call` holds the function under test and its argument, and
\* the one action applies the function as the code computes it.

\* Everything but `call`.
handlerVars == <<lifecycleVars, streamingTextRef, questionAccumulatorRef,
                 currentQuestionRef, lockedTopicRef, isUserAnsweringRef,
                 lastTurnWasCompleteRef, activeResponse, currentQuestion,
                 responseInProgressRef, lastSent, lastOp, isResumeModalOpen,
                 resumeContent, jarvis_resume>>

\* A function and its argument, not yet applied.
Pending(fn, arg) == [fn |-> fn, arg |-> arg, done |-> FALSE, result |-> <<>>]

\* The function fn has been applied to its argument.
Applied(fn) == call.fn = fn /\ call.done

\* Accumulated texts and chunks for appendChunkWithSpacing.
AppendCurrents == {"", "foo", "end.", "f(x)", "a\n", "1", "x (", "so,"}

AppendChunks == {"", "bar", "Next", "(y)", "\nb", "2", ") z", ".5"}

InitAppend ==
  /\ InitProgram(MaxStarts)
  /\ \E current \in AppendCurrents : \E chunk \in AppendChunks :
       call = Pending("appendChunkWithSpacing", <<current, chunk>>)

ApplyAppend ==
  /\ call.fn = "appendChunkWithSpacing" /\ ~call.done
  /\ call' = [call EXCEPT !.done = TRUE,
                          !.result = appendChunkWithSpacing(call.arg[1], call.arg[2])]
  /\ UNCHANGED handlerVars

SpecAppend == InitAppend /\ [][ApplyAppend]_vars

\* Bound: the number of lines of a text handed to sanitizeModelOutput.
MaxLines == 5

\* The lines of those texts, before they are joined by line feeds.
LineInputs == {"", "x", " y ", "  ", " AUTO TASK: a", "Topic lock: t"}

\* The texts of at most n lines, each as the sequence of its lines.
RECURSIVE LineSeqs(_)
LineSeqs(n) ==
  IF n = 0 THEN {<<>>}
  ELSE LET shorter == LineSeqs(n - 1) IN
       shorter \cup {Append(ls, l) : ls \in shorter, l \in LineInputs}

InitSanitize ==
  /\ InitProgram(MaxStarts)
  /\ \E lines \in LineSeqs(MaxLines) : call = Pending("sanitizeModelOutput", lines)

ApplySanitize ==
  /\ call.fn = "sanitizeModelOutput" /\ ~call.done
  /\ call' = [call EXCEPT !.done = TRUE,
                          !.result = sanitizeModelOutput(JoinLines(call.arg))]
  /\ UNCHANGED handlerVars

SpecSanitize == InitSanitize /\ [][ApplySanitize]_vars

\* ResponseDisplay (src/unnamed/part_001, lines 569-779).

\* lines 613-618: the section keys, in the order of the marker pattern.
SectionKeys == {"TECHNICAL_DEFINITION", "EXPLANATION", "EXAMPLES", "FLOW_DIAGRAM"}

\* line 620: the marker of a section key.
Marker(key) == "[" \o key \o "]"

\* The key whose marker starts at position i of text, or "" when none does.
MarkerAt(text, i) ==
  LET Here(key) == /\ i + Len(Marker(key)) - 1 <= Len(text)
                   /\ SubSeq(text, i, i + Len(Marker(key)) - 1) = Marker(key)
  IN IF \E key \in SectionKeys : Here(key)
     THEN CHOOSE key \in SectionKeys : Here(key)
     ELSE ""

\* line 621: Array.from(text.matchAll(markerRegex)), scanning from position i:
\* the matches from left to right, none overlapping another.
RECURSIVE MatchAll(_, _)
MatchAll(text, i) ==
  IF i > Len(text) THEN <<>>
  ELSE LET key == MarkerAt(text, i) IN
       IF key # ""
       THEN <<[index |-> i, key |-> key]>> \o MatchAll(text, i + Len(Marker(key)))
       ELSE MatchAll(text, i + 1)

\* lines 629-630: value.replace(markerRegex, '')
RECURSIVE StripMarkers(_)
StripMarkers(value) ==
  IF Len(value) = 0 THEN value
  ELSE LET key == MarkerAt(value, 1) IN
       IF key # ""
       THEN StripMarkers(SubSeq(value, Len(Marker(key)) + 1, Len(value)))
       ELSE SubSeq(value, 1, 1) \o StripMarkers(SubSeq(value, 2, Len(value)))

\* line 633: the block is already part of the section's text.
AlreadyShown(stored, cleaned) == Includes(stored, cleaned)

\* text.split('\n\n') (line 600) and the inverse of join('\n\n') (lines 609
\* and 634): the parts of text between its separators, taken left to right.
RECURSIVE SplitParagraphs(_)
SplitParagraphs(text) ==
  LET FirstSep[i \in 1..(Len(text) + 1)] ==
        IF i + 1 > Len(text) THEN 0
        ELSE IF SubSeq(text, i, i + 1) = "\n\n" THEN i
        ELSE FirstSep[i + 1]
      at == FirstSep[1]
  IN IF at = 0 THEN <<text>>
     ELSE <<SubSeq(text, 1, at - 1)>> \o SplitParagraphs(SubSeq(text, at + 2, Len(text)))

\* lines 628-635
appendUnique(sections, key, value) ==
  LET cleaned == Trim(StripMarkers(value)) IN
  IF cleaned = "" THEN sections
  ELSE IF AlreadyShown(sections[key], cleaned) THEN sections
  ELSE [sections EXCEPT ![key] = IF @ # "" THEN @ \o "\n\n" \o cleaned ELSE cleaned]

\* lines 637-644: the loop over the matches, from match i on.
RECURSIVE AppendBlocks(_, _, _, _)
AppendBlocks(sections, text, matches, i) ==
  IF i > Len(matches) THEN sections
  ELSE LET current == matches[i]
           start == current.index + Len(Marker(current.key))
           end == IF i < Len(matches) THEN matches[i + 1].index ELSE Len(text) + 1
           block == SubSeq(text, start, end - 1)
       IN AppendBlocks(appendUnique(sections, current.key, block), text, matches, i + 1)

\* Faulty variant of Unlabelled: a text without markers is not trimmed.
UnlabelledRaw(text) == text

\* line 624: the section of a text that holds no marker.
Unlabelled(text) == Trim(text)

\* lines 612-647
extractSections(text) ==
  LET sections == [key \in SectionKeys |-> ""]
      matches == MatchAll(text, 1)
  IN IF Len(matches) = 0
     THEN [sections EXCEPT !["EXPLANATION"] = Unlabelled(text)]
     ELSE AppendBlocks(sections, text, matches, 1)

\* Bound: the number of pieces (markers and runs of content) of a text
\* handed to extractSections.
MaxPieces == 4

\* The content between markers: words and white space.
Contents == {"A", "B", "AB", " "}

\* The pieces a streamed text is made of.
Pieces == {Marker(key) : key \in SectionKeys} \cup Contents

\* The texts of at most n pieces, each as the sequence of its pieces.
RECURSIVE PieceSeqs(_)
PieceSeqs(n) ==
  IF n = 0 THEN {<<>>}
  ELSE LET shorter == PieceSeqs(n - 1) IN
       shorter \cup {Append(ps, p) : ps \in shorter, p \in Pieces}

\* The text a sequence of pieces spells.
RECURSIVE Spell(_)
Spell(pieces) == IF pieces = <<>> THEN "" ELSE Head(pieces) \o Spell(Tail(pieces))

InitSections ==
  /\ InitProgram(MaxStarts)
  /\ \E pieces \in PieceSeqs(MaxPieces) : call = Pending("extractSections", pieces)

ApplySections ==
  /\ call.fn = "extractSections" /\ ~call.done
  /\ call' = [call EXCEPT !.done = TRUE, !.result = extractSections(Spell(call.arg))]
  /\ UNCHANGED handlerVars

SpecSections == InitSections /\ [][ApplySections]_vars

\* String.prototype.toLowerCase, one character.
ToLowerCase(ch) ==
  LET upper == "ABCDEFGHIJKLMNOPQRSTUVWXYZ"
      lower == "abcdefghijklmnopqrstuvwxyz"
  IN IF \E i \in 1..26 : SubSeq(upper, i, i) = ch
     THEN LET i == CHOOSE j \in 1..26 : SubSeq(upper, j, j) = ch IN SubSeq(lower, i, i)
     ELSE ch

\* lines 579-580: lower case, and every character outside [a-z0-9\s] becomes
\* a space.
RECURSIVE LowerAlnum(_)
LowerAlnum(text) ==
  IF Len(text) = 0 THEN text
  ELSE LET ch == ToLowerCase(SubSeq(text, 1, 1)) IN
       (IF ch \in CharsOf("abcdefghijklmnopqrstuvwxyz") \cup Digits \cup Whitespace
        THEN ch ELSE " ") \o LowerAlnum(SubSeq(text, 2, Len(text)))

\* line 581: .replace(/\s+/g, ' ')
RECURSIVE CollapseWhitespace(_)
CollapseWhitespace(text) ==
  IF Len(text) = 0 THEN text
  ELSE IF SubSeq(text, 1, 1) \in Whitespace
  THEN " " \o CollapseWhitespace(TrimStart(text))
  ELSE SubSeq(text, 1, 1) \o CollapseWhitespace(SubSeq(text, 2, Len(text)))

\* lines 577-582
normalizeForCompare(text) == Trim(CollapseWhitespace(LowerAlnum(text)))

\* na.split(' ') as a set (lines 591-592).
RECURSIVE Tokens(_)
Tokens(normalized) ==
  LET FirstSpace[i \in 1..(Len(normalized) + 1)] ==
        IF i > Len(normalized) THEN 0
        ELSE IF SubSeq(normalized, i, i) = " " THEN i
        ELSE FirstSpace[i + 1]
      at == FirstSpace[1]
  IN IF at = 0 THEN {normalized}
     ELSE {SubSeq(normalized, 1, at - 1)}
            \cup Tokens(SubSeq(normalized, at + 1, Len(normalized)))

\* Faulty variant of EnoughOverlap: half of the tokens suffice.
EnoughOverlapHalf(common, minSize) == 2 * common >= minSize

\* line 595: common / minSize >= 0.8
EnoughOverlap(common, minSize) == 5 * common >= 4 * minSize

\* lines 584-596
isNearDuplicate(a, b) ==
  LET na == normalizeForCompare(a)
      nb == normalizeForCompare(b)
      tokensA == Tokens(na)
      tokensB == Tokens(nb)
      common == Cardinality(tokensA \cap tokensB)
      smaller == IF Cardinality(tokensA) < Cardinality(tokensB)
                 THEN Cardinality(tokensA) ELSE Cardinality(tokensB)
      minSize == IF smaller > 1 THEN smaller ELSE 1
  IN IF na = "" \/ nb = "" THEN FALSE
     ELSE IF na = nb THEN TRUE
     ELSE IF Includes(na, nb) \/ Includes(nb, na) THEN TRUE
     ELSE EnoughOverlap(common, minSize)

\* line 602: /^(or|or\.|or,)\s*$/i on a trimmed paragraph.
IsConnective(p) ==
  LET word == LowerAlnum(SubSeq(p, 1, 2))
      rest == TrimEnd(SubSeq(p, 3, Len(p)))
  IN Len(p) >= 2 /\ word = "or" /\ rest \in {"", ".", ","}

\* lines 604-608: the loop over the paragraphs, from paragraph i on.
RECURSIVE KeepDistinct(_, _, _)
KeepDistinct(kept, paragraphs, i) ==
  IF i > Len(paragraphs) THEN kept
  ELSE LET para == paragraphs[i]
           isDup == \E k \in 1..Len(kept) : isNearDuplicate(kept[k], para)
       IN KeepDistinct(IF isDup THEN kept ELSE Append(kept, para), paragraphs, i + 1)

\* kept.join('\n\n')
RECURSIVE JoinParagraphs(_)
JoinParagraphs(kept) ==
  IF Len(kept) = 0 THEN ""
  ELSE IF Len(kept) = 1 THEN kept[1]
  ELSE kept[1] \o "\n\n" \o JoinParagraphs(Tail(kept))

\* lines 599-602: the trimmed paragraphs that are neither empty nor a
\* connective.
Paragraphs(text) ==
  LET parts == SplitParagraphs(text)
      trimmed == [i \in 1..Len(parts) |-> Trim(parts[i])]
  IN SelectSeq(trimmed, LAMBDA p : p # "" /\ ~IsConnective(p))

\* lines 598-610
dedupeTechnicalDefinition(text) ==
  JoinParagraphs(KeepDistinct(<<>>, Paragraphs(text), 1))

\* Bound: the number of paragraphs of a text handed to
\* dedupeTechnicalDefinition.
MaxParagraphs == 3

\* The paragraphs of those texts, before they are joined by blank lines.
ParagraphInputs ==
  {"a b", "b a c", "A b.", "a d", "or", "Or.", "?!", " a d", "", "a\nb c d e", "f e d c b"}

\* The texts of at most n paragraphs, each as the sequence of its paragraphs.
RECURSIVE ParagraphSeqs(_)
ParagraphSeqs(n) ==
  IF n = 0 THEN {<<>>}
  ELSE LET shorter == ParagraphSeqs(n - 1) IN
       shorter \cup {Append(ps, p) : ps \in shorter, p \in ParagraphInputs}

InitDedupe ==
  /\ InitProgram(MaxStarts)
  /\ \E paragraphs \in ParagraphSeqs(MaxParagraphs) :
       call = Pending("dedupeTechnicalDefinition", paragraphs)

ApplyDedupe ==
  /\ call.fn = "dedupeTechnicalDefinition" /\ ~call.done
  /\ call' = [call EXCEPT !.done = TRUE,
                          !.result = dedupeTechnicalDefinition(JoinParagraphs(call.arg))]
  /\ UNCHANGED handlerVars

SpecDedupe == InitDedupe /\ [][ApplyDedupe]_vars

----------------------------------------------------------------------------
\* The Knowledge Context form.

\* Texts the user may type into the form.
ResumeTexts == {"", "cv", "cv2"}

\* Everything the form's handlers leave alone.
sessionVars == <<lifecycleVars, streamingTextRef, questionAccumulatorRef,
                 currentQuestionRef, lockedTopicRef, isUserAnsweringRef,
                 lastTurnWasCompleteRef, activeResponse, currentQuestion,
                 responseInProgressRef, call>>

\* line 361: the menu entry opens the form.
OpenResumeModal ==
  /\ ~isResumeModalOpen
  /\ isResumeModalOpen' = TRUE
  /\ lastOp' = Op("openResume", "done", NoRef)
  /\ lastSent' = <<>>
  /\ UNCHANGED <<sessionVars, resumeContent, jarvis_resume>>

\* line 444: onChange of the textarea.
EditResume(value) ==
  /\ isResumeModalOpen
  /\ value # resumeContent
  /\ resumeContent' = value
  /\ lastOp' = Op("editResume", "done", NoRef)
  /\ lastSent' = <<>>
  /\ UNCHANGED <<sessionVars, isResumeModalOpen, jarvis_resume>>

\* line 447: the Discard button only closes the form.
DiscardResume ==
  /\ isResumeModalOpen
  /\ isResumeModalOpen' = FALSE
  /\ lastOp' = Op("discardResume", "done", NoRef)
  /\ lastSent' = <<>>
  /\ UNCHANGED <<sessionVars, resumeContent, jarvis_resume>>

\* Faulty variant of ResumeUpdateDue: the update is sent on every save.
ResumeUpdateAlways == TRUE

\* line 134: the condition of the in-band update.
ResumeUpdateDue == sessionRef # NoRef /\ sessionState.isActive

\* lines 129-139: onSubmit of the form.
saveResume ==
  /\ isResumeModalOpen
  /\ jarvis_resume' = resumeContent
  /\ isResumeModalOpen' = FALSE
  /\ IF ResumeUpdateDue
     THEN /\ lastSent' = <<[to |-> sessionRef, kind |-> "update", text |-> resumeContent]>>
          /\ lastOp' = Op("saveResume", "sent", NoRef)
     ELSE /\ lastSent' = <<>>
          /\ lastOp' = Op("saveResume", "saved", NoRef)
  /\ UNCHANGED <<sessionVars, resumeContent>>

\* line 328: `CONTEXT: ${resumeContent || 'N/A'}`, the Knowledge Context that
\* a startSession called now puts into the initial instruction of its
\* connection.
InjectedContext == IF resumeContent # "" THEN resumeContent ELSE "N/A"

\* The handlers of the form.
NextResume ==
  \/ OpenResumeModal
  \/ \E value \in ResumeTexts : EditResume(value)
  \/ DiscardResume
  \/ saveResume

\* One start, no throwing release call, and the Knowledge Context form.
SpecResume == Init /\ [][NextSessionNoThrow \/ NextResume]_vars

----------------------------------------------------------------------------
\* A turn from its first fragment to the completion of its answer, driven
\* through onmessage on a session that startSession opened.  `call.arg` holds
\* the messages still to be delivered and `call.result` what was delivered in
\* the last turn: its fragments and the labelled blocks of its answer.

\* One message of the remote session.
Message(frag, chunk, tc) == [frag |-> frag, chunk |-> chunk, tc |-> tc]

\* One labelled block of an answer; `lead` is white space the remote puts
\* before the marker.
Block(lead, key, content) == [lead |-> lead, key |-> key, content |-> content]

\* The fragments of a question, as the remote delivers them.
QuestionInputs == {<<"What is", " caching?">>, <<"Why?">>, <<"Is ", "it", " fast">>}

\* The blocks of an answer, one block a chunk, no key twice.
AnswerInputs ==
  {<<Block("", "TECHNICAL_DEFINITION", "A cache stores."),
     Block(" ", "EXPLANATION", "Detail.")>>,
   <<Block("", "EXPLANATION", "B")>>,
   <<Block("\n", "EXAMPLES", " get(k) "), Block("", "TECHNICAL_DEFINITION", "T")>>,
   <<Block("", "FLOW_DIAGRAM", "a -> b"), Block("", "EXAMPLES", "x"),
     Block(" ", "EXPLANATION", "y.")>>}

\* The messages of a sequence of fragments, or of blocks: one message each.
FragmentMessages(fragments) ==
  [i \in 1..Len(fragments) |-> Message(fragments[i], "", FALSE)]

\* The turn-complete signal comes with the last chunk when `together`, and
\* in a message of its own otherwise.
BlockMessages(blocks, together) ==
  [i \in 1..Len(blocks) |->
     Message("", blocks[i].lead \o Marker(blocks[i].key) \o blocks[i].content,
             together /\ i = Len(blocks))]
    \o (IF together THEN <<>> ELSE <<Message("", "", TRUE)>>)

\* The messages of one turn: the fragments, turn-complete, the chunks,
\* turn-complete.
TurnMessages(fragments, blocks, together) ==
  FragmentMessages(fragments) \o <<Message("", "", TRUE)>>
    \o BlockMessages(blocks, together)

\* The turn that may precede the one looked at.
EarlierTurns ==
  {<<>>, TurnMessages(<<"Old", " one">>, <<Block("", "EXAMPLES", "old")>>, FALSE)}

InitScenario ==
  /\ InitProgram(MaxStarts)
  /\ \E earlier \in EarlierTurns : \E fragments \in QuestionInputs :
       \E blocks \in AnswerInputs : \E together \in BOOLEAN :
         call = [fn |-> "scenario",
                 arg |-> earlier \o TurnMessages(fragments, blocks, together),
                 done |-> FALSE,
                 result |-> [fragments |-> fragments, blocks |-> blocks]]

\* The next message of the scenario arrives.
Deliver ==
  /\ call.fn = "scenario" /\ call.arg # <<>>
  /\ \E i \in Ids : onmessage(i, Head(call.arg).frag, Head(call.arg).chunk,
                               Head(call.arg).tc)
  /\ call' = [call EXCEPT !.arg = Tail(call.arg), !.done = (Len(call.arg) = 1)]

\* startSession on its successful path.
NextStart ==
  \/ StartSession
  \/ \E i \in Ids : MicGranted(i)
  \/ \E i \in Ids : ResumeResolved(i)
  \/ \E i \in Ids : OnOpen(i)
  \/ \E i \in Ids : SessionResolved(i)

SpecScenario == InitScenario /\ [][NextStart \/ SyncQuestionRef \/ Deliver]_vars

----------------------------------------------------------------------------
\* The session lifecycle with an environment that answers: every request the
\* component is waiting on gets one of its responses.

\* The connection attempt i opens, is rejected, errors or closes.
ConnectResponds(i) ==
  /\ conn[i] = "connecting"
  /\ \/ OnOpen(i)
     \/ SessionRejected(i)
     \/ \E t \in ErrTexts : OnError(i, t, "none")
     \/ \E r \in CloseReasons : \E c \in CloseCodes : OnClose(i, r, c, "none")

\* The close event that follows the error of connection i (lines 292-300).
CloseFollowsError(i) ==
  /\ conn[i] = "errored"
  /\ \E r \in CloseReasons : \E c \in CloseCodes : OnClose(i, r, c, "none")

\* getUserMedia settles (line 196), inputCtx.resume() settles (line 200), the
\* connection attempt gets a response (lines 203-300), a connection that
\* errored closes, and a close() of the audio context that is going to
\* resolve does resolve (line 163).
FairEnvironment ==
  /\ \A i \in Ids : WF_vars(MicGranted(i) \/ \E e \in MicErrNames : MicRejected(i, e))
  /\ \A i \in Ids : WF_vars(ResumeResolved(i) \/ ResumeRejected(i))
  /\ \A i \in Ids : WF_vars(ConnectResponds(i))
  /\ \A i \in Ids : WF_vars(CloseFollowsError(i))
  /\ WF_vars(\E k \in 1..Len(pendingStops) : StopResume(k, TRUE))

SpecConnecting == Init /\ [][NextSession]_vars /\ FairEnvironment

----------------------------------------------------------------------------
\* The questions of successive sessions.  `call.result` is the set of the
\* connections that have delivered an accepted fragment, `call.arg` the last
\* accepted fragment, and `call.done` says that the last message brought the
\* first accepted fragment of its connection.

InitHeard ==
  /\ InitProgram(MaxStarts + 1)
  /\ call = [fn |-> "heard", arg |-> <<>>, done |-> FALSE, result |-> {}]

\* lines 224-227: the fragment passes the checks made before it is appended.
Accepted(frag) == frag # "" /\ ~isUserAnsweringRef /\ isEnglishLike(frag)

\* A message arrives on connection i.
Heard(i, frag, chunk, tc) ==
  /\ call.fn = "heard"
  /\ onmessage(i, frag, chunk, tc)
  /\ Len(questionAccumulatorRef') <= MaxQuestionLen
  /\ Len(streamingTextRef') <= MaxAnswerLen
  /\ call' = IF Accepted(frag)
             THEN [fn |-> "heard", arg |-> <<frag>>, done |-> i \notin call.result,
                   result |-> call.result \cup {i}]
             ELSE [call EXCEPT !.done = FALSE]

\* The messages of the questions: fragments and turn-complete signals.
NextHeard ==
  \E i \in Ids : \E f \in Fragments : \E tc \in BOOLEAN : Heard(i, f, "", tc)

\* Sessions started and stopped on the fault-free path, with their messages.
SpecHeard == InitHeard /\ [][NextSessionPlain \/ SyncQuestionRef \/ NextHeard]_vars

\* The audio callbacks of the processors.
NextAudio == \E i \in Ids : OnAudioProcess(i)

\* Two starts, no throwing release call, and the audio callbacks.
SpecAudio == InitRestart /\ [][NextSessionNoThrow \/ NextAudio]_vars

\* Messages that carry generated text or the turn-complete signal only.
NextAnswer ==
  \E i \in Ids : \E c \in Chunks : \E tc \in BOOLEAN : OnMessage(i, "", c, tc)

\* The whole session lifecycle together with the messages of an answer.
SpecAnswer == Init /\ [][NextSession \/ NextAnswer]_vars

----------------------------------------------------------------------------
\* AnsweringMode across sessions: the toggle, the audio frames and the
\* transcription fragments over sessions that are started and stopped.

NextFragment ==
  \E i \in Ids : \E f \in Fragments \ {""} : OnMessage(i, f, "", FALSE)

SpecMode ==
  InitRestart /\ [][NextSessionPlain \/ toggleAnsweringMode \/ SyncQuestionRef
                      \/ NextAudio \/ NextFragment]_vars

----------------------------------------------------------------------------
\* Properties

IdleStatus == ~sessionState.isActive /\ ~sessionState.isConnecting

\* The operations that call stopSession.
StopOps == {"userStop", "onerror", "onclose"}

\* No stopSession is suspended at its await.
Quiescent == pendingStops = <<>>

\* A resource of the session is still referenced or still live.
Held ==
  \/ micStreamRef # NoRef
  \/ audioContextRef # NoRef
  \/ scriptProcessorRef # NoRef
  \/ sessionRef # NoRef
  \/ \E i \in Ids : mic[i] = "live"
  \/ \E i \in Ids : ctx[i] = "running"
  \/ \E i \in Ids : proc[i] = "connected"
  \/ \E i \in Ids : conn[i] \in {"connecting", "open"}

\* The startSession invocations whose connection attempt is under way: they
\* are before their connect call, or their connection has not opened, failed
\* or closed yet.
InFlight ==
  {i \in Ids : \/ startPc[i] \in {"awaitMic", "awaitResume"}
               \/ startPc[i] = "awaitSession" /\ conn[i] = "connecting"}

\* C1: stop() is re-entrancy-safe.  At most one stopSession is ever past the
\* latch (so overlapping calls cause one transition to Idle), the latch is
\* held exactly while that one is suspended, and no object of the session
\* (audio processor, connection, microphone stream, audio context) has more
\* than one release call issued on it.
C1_StopReentrant ==
  /\ Len(pendingStops) <= 1
  /\ isStoppingRef <=> Len(pendingStops) = 1
  /\ \A i \in Ids : /\ released[i].processor <= 1
                    /\ released[i].session <= 1
                    /\ released[i].mic <= 1
                    /\ released[i].ctx <= 1

\* A stop() arrived while an earlier one was suspended, and was ignored.
C1_Witness ==
  /\ lastOp.op \in StopOps
  /\ lastOp.outcome = "ignored"
  /\ Len(pendingStops) = 1

\* C2: whenever the session status is Idle, no microphone stream, audio
\* context, audio processor or connection handle is still held.
C2_ReleasedWhenIdle == IdleStatus => ~Held

\* C3: at most one capture device and at most one remote connection are live,
\* and no connection handle is stored or left open while the status is Idle.
C3_OneDeviceOneConnection ==
  /\ Cardinality({i \in Ids : mic[i] = "live"}) <= 1
  /\ Cardinality({i \in Ids : conn[i] \in {"connecting", "open"}}) <= 1
  /\ IdleStatus => /\ sessionRef = NoRef
                   /\ \A i \in Ids : conn[i] # "open"

\* C4 (first part): a startSession() call made while the session is
\* Connecting or Active changes nothing of the session.
C4_StartIgnoredWhenBusy ==
  [][(StartSession /\ (sessionState.isConnecting \/ sessionState.isActive))
       => UNCHANGED lifecycleVars]_vars

\* C4: start() while Connecting or Active has no effect, so at most one
\* connection attempt is in flight at any time.
C4_OneAttemptInFlight == Cardinality(InFlight) <= 1

\* The outcomes of StartCatch.
StartFailures == {"NotAllowedError", "NotFoundError", "InvalidStateError", "Error"}

\* C5: a failed start() leaves the session Idle with the message of its
\* cause: CredentialMissing without the microphone being requested or a
\* connection opened, MicrophoneDenied on a permission denial, ConnectionRefused
\* on any other failure; the invocation is over (nothing retries it) and the
\* guard of a later start() would let it in.
C5_FailedStart ==
  /\ (lastOp.op = "start" /\ lastOp.outcome = "noKey") =>
        /\ sessionState = Idle(MsgApiKeyMissing)
        /\ \A i \in Ids : startPc[i] = "new" /\ mic[i] = "none" /\ conn[i] = "none"
        /\ ~StartRejected
  /\ (lastOp.op = "start" /\ lastOp.outcome \in StartFailures) =>
        /\ sessionState = Idle(IF lastOp.outcome = "NotAllowedError"
                               THEN MsgMicDenied ELSE MsgConnRefused)
        /\ startPc[lastOp.id] = "done"
        /\ ~StartRejected

\* A start() failed because the microphone permission was denied.
C5_Witness ==
  /\ lastOp = Op("start", "NotAllowedError", 1)
  /\ sessionState.error = MsgMicDenied

\* C6: once a remote error or an unexpected remote close was delivered (and
\* neither a dismiss nor a new start() followed), the session, when no stop()
\* is in progress any more, is Idle with a non-null error message.
C6_ErrorSurfaced ==
  (errorDue # Null /\ Quiescent) => (IdleStatus /\ sessionState.error # Null)

\* C7: the message displayed after a remote error is the one derived from the
\* error (authentication failure for 401, connection failure otherwise), also
\* when the error arrived during a start() or during a stop().
C7_DerivedMessageDisplayed ==
  (errorDue \in {MsgAuthFailed, MsgConnFailure} /\ Quiescent)
     => sessionState.error = errorDue

\* C8: when the stop() called by the remote-close callback has run, then, if
\* the close was not the result of a user-initiated stop, the session is Idle
\* with the recorded session error or else the unexpected-close message; if it
\* was, no error is shown and the user-initiated marker is cleared.
C8_CloseSurfaced ==
  (lastOp.op = "onclose" /\ lastOp.outcome = "done") =>
     IF closedBy[lastOp.id] = "userStop"
     THEN sessionState.error = Null /\ ~userInitiatedStopRef
     ELSE IdleStatus /\ errorDue # Null /\ sessionState.error = errorDue

\* C9: a release call of stop() that throws does not keep the other release
\* steps from running: after it the connection handle, the microphone stream,
\* the audio processor and the audio context are released and the status is
\* Idle.
C9_ThrowDoesNotSkipRelease ==
  (lastOp.op \in StopOps /\ lastOp.outcome = "threw") =>
     /\ IdleStatus
     /\ scriptProcessorRef = NoRef
     /\ sessionRef = NoRef
     /\ micStreamRef = NoRef
     /\ audioContextRef = NoRef

\* C10: while AnsweringMode is on and no answer is in progress, a message
\* that carries only generated text is dropped: the answer buffer, the
\* published answer and the in-progress flag stay as they were.
C10_ChunkDroppedWhenAnswering ==
  [][(/\ isUserAnsweringRef
      /\ ~responseInProgressRef
      /\ \E i \in Ids : \E c \in Chunks \ {""} : OnMessage(i, "", c, FALSE))
       => UNCHANGED <<streamingTextRef, activeResponse, responseInProgressRef>>]_vars

\* A message with the turn-complete signal is handled.
TurnCompleteMsg ==
  \E i \in Ids : \E f \in Fragments : \E c \in Chunks : OnMessage(i, f, c, TRUE)

\* C11: handling a turn-complete signal marks the turn complete, clears the
\* answer-in-progress flag, sets the completion flag of the published answer
\* if there is one, and makes the question of that turn (the accumulated
\* question, when there is one) the locked topic, also when the last fragment
\* comes in the same message or currentQuestionRef is not synchronised yet.
C11_TurnCompleteCapturesQuestion ==
  [][TurnCompleteMsg =>
       /\ lastTurnWasCompleteRef'
       /\ ~responseInProgressRef'
       /\ activeResponse'.present => activeResponse'.isComplete
       /\ questionAccumulatorRef' # "" => lockedTopicRef' = questionAccumulatorRef']_vars

\* C12: with AnsweringMode off, a fragment holding a non-ASCII character
\* leaves the question accumulator as it was, replaces the displayed question
\* by the fixed warning, and changes nothing of the session (it stays Active
\* with no error).
C12_ForeignFragmentRejected ==
  [][(/\ ~isUserAnsweringRef
      /\ \E i \in Ids : \E f \in ForeignFragments : \E c \in Chunks :
           \E tc \in BOOLEAN : OnMessage(i, f, c, tc))
       => /\ questionAccumulatorRef' = questionAccumulatorRef
          /\ currentQuestion' = MsgEnglishOnly
          /\ UNCHANGED lifecycleVars]_vars

\* A non-ASCII fragment was rejected in an Active session whose accumulator
\* holds a question.
C12_Witness ==
  /\ lastOp.op = "onmessage" /\ lastOp.outcome = "rejected"
  /\ currentQuestion = MsgEnglishOnly
  /\ questionAccumulatorRef = "H"
  /\ sessionState = [isActive |-> TRUE, isConnecting |-> FALSE, error |-> Null]

\* The fragments that pass isEnglishLike.
ValidFragments == (Fragments \ {""}) \ ForeignFragments

\* C13: with AnsweringMode off, a valid fragment that arrives after the
\* previous turn was marked complete makes the published question exactly
\* that fragment, and (when the message carries nothing else) clears the
\* displayed answer and the answer buffer and marks the turn not complete; a
\* valid fragment that arrives while the turn is not complete is appended to
\* the question.  The published question equals the accumulator.
C13_TurnBoundary ==
  [][\A f \in ValidFragments :
       (/\ ~isUserAnsweringRef
        /\ \E i \in Ids : \E c \in Chunks : \E tc \in BOOLEAN : OnMessage(i, f, c, tc))
         => /\ questionAccumulatorRef' =
                 (IF lastTurnWasCompleteRef THEN f ELSE questionAccumulatorRef \o f)
            /\ currentQuestion' = questionAccumulatorRef'
            /\ (lastTurnWasCompleteRef /\ \E i \in Ids : OnMessage(i, f, "", FALSE))
                 => /\ activeResponse' = NoResponse
                    /\ streamingTextRef' = ""
                    /\ ~lastTurnWasCompleteRef']_vars

\* A fragment has just started a new turn: the question is the fragment alone
\* while currentQuestionRef still holds the longer question of the turn before.
C13_Witness ==
  /\ lastOp.op = "onmessage" /\ lastOp.outcome = "fragment"
  /\ ~isUserAnsweringRef
  /\ currentQuestion = "H"
  /\ questionAccumulatorRef = "H"
  /\ currentQuestionRef = "HH"
  /\ ~lastTurnWasCompleteRef

\* C14: the published answer is the spacing-joined concatenation of the
\* sanitized chunks received since the last turn-complete signal, and of
\* these only: the first chunk after a turn-complete message is published
\* alone, a chunk that follows a chunk is joined to the text so far, and each
\* accepted chunk sets the in-progress flag and publishes the answer as
\* incomplete.
C14_AnswerIsJoinOfTurnChunks ==
  [][\A c \in Chunks :
       ((\E i \in Ids : OnMessage(i, "", c, FALSE)) /\ sanitizeModelOutput(c) # "")
         => /\ (lastOp.op = "onmessage" /\ lastOp.outcome = "turnComplete")
                 => streamingTextRef' = sanitizeModelOutput(c)
            /\ (lastOp.op = "onmessage" /\ lastOp.outcome = "chunk" /\ responseInProgressRef)
                 => streamingTextRef' =
                      appendChunkWithSpacing(streamingTextRef, sanitizeModelOutput(c))
            /\ responseInProgressRef'
            /\ activeResponse' = Item(streamingTextRef', FALSE)]_vars

\* The toggle that turns AnsweringMode on.
EntersAnsweringMode == toggleAnsweringMode /\ ~isUserAnsweringRef

\* C15: entering AnsweringMode locks the topic to the latest question text
\* (the accumulated question) when there is one and keeps the previous lock
\* otherwise, clears the answer-in-progress flag, and sends exactly one
\* continuation request with that locked topic to the session when the
\* session is Active, and none when it is not.
C15_EnterLocksAndRequests ==
  [][EntersAnsweringMode =>
       /\ lockedTopicRef' = (IF Trim(questionAccumulatorRef) # ""
                             THEN Trim(questionAccumulatorRef) ELSE lockedTopicRef)
       /\ ~responseInProgressRef'
       /\ (sessionState.isActive /\ sessionRef # NoRef)
            => lastSent' = <<[to |-> sessionRef, kind |-> "continuation",
                              topic |-> IF lockedTopicRef' # ""
                                        THEN lockedTopicRef' ELSE DefaultTopic]>>
       /\ ~sessionState.isActive => lastSent' = <<>>]_vars

\* The toggle that turns AnsweringMode off.
LeavesAnsweringMode == toggleAnsweringMode /\ isUserAnsweringRef

\* C16: after the toggle that turns AnsweringMode off, the displayed question
\* is empty, the published answer is absent, the question accumulator and the
\* answer buffer are empty, the answer-in-progress flag is false and the
\* previous turn is marked complete.
C16_LeaveIsCleanSlate ==
  [][LeavesAnsweringMode =>
       /\ currentQuestion' = ""
       /\ activeResponse' = NoResponse
       /\ questionAccumulatorRef' = ""
       /\ streamingTextRef' = ""
       /\ ~responseInProgressRef'
       /\ lastTurnWasCompleteRef']_vars

\* C17: while AnsweringMode is on, an audio-process event sends no frame to
\* the session, and a message that carries a transcription fragment alone
\* changes neither the question accumulator, the displayed question, the
\* locked topic nor the displayed answer.
C17_MicSuppressedWhenAnswering ==
  [][isUserAnsweringRef =>
       /\ (\E i \in Ids : OnAudioProcess(i)) => lastSent' = <<>>
       /\ (\E i \in Ids : \E f \in Fragments \ {""} : OnMessage(i, f, "", FALSE))
            => UNCHANGED <<questionAccumulatorRef, currentQuestion, lockedTopicRef,
                           activeResponse, streamingTextRef>>]_vars

\* An audio-process event was suppressed in an Active session with
\* AnsweringMode on and a question accumulated.
C17_Witness ==
  /\ lastOp.op = "audio" /\ lastOp.outcome = "suppressed"
  /\ isUserAnsweringRef
  /\ sessionState.isActive
  /\ questionAccumulatorRef = "H"
  /\ lastSent = <<>>

\* A message whose transcription fragment is accepted.
AcceptedFragmentMsg ==
  /\ ~isUserAnsweringRef
  /\ \E i \in Ids : \E f \in ValidFragments : \E c \in Chunks : \E tc \in BOOLEAN :
       OnMessage(i, f, c, tc)

\* C18 (as stated): once the locked topic is set, it changes only when a turn
\* completes or AnsweringMode is exited, and it never reverts to empty.
C18_LockChangesOnlyAtTurnEnd ==
  [][(lockedTopicRef # "" /\ lockedTopicRef' # lockedTopicRef)
       => /\ TurnCompleteMsg \/ LeavesAnsweringMode
          /\ lockedTopicRef' # ""]_vars

\* C18 (amended): the locked topic changes only when a transcription fragment
\* is accepted, when AnsweringMode is entered or when a turn-complete signal
\* is handled; a chunk, a rejected or suppressed fragment, leaving
\* AnsweringMode, stop and start leave it as it is; and it never becomes
\* empty again.
C18_LockPersists ==
  [][lockedTopicRef' # lockedTopicRef
       => /\ AcceptedFragmentMsg \/ EntersAnsweringMode \/ TurnCompleteMsg
          /\ lockedTopicRef' # ""]_vars

\* The locked topic was replaced by an accepted fragment and has survived a
\* stop of the session.
C18_Witness ==
  /\ lockedTopicRef = "HH"
  /\ lastOp.op = "userStop" /\ lastOp.outcome = "done"
  /\ ~sessionState.isActive

\* A stopSession call made by the Terminate button or by onerror.
StopByUserOrError ==
  \/ \E t \in ThrowPoints : UserStop(t)
  \/ \E i \in Ids : \E e \in ErrTexts : \E t \in ThrowPoints : OnError(i, e, t)

\* A stopSession call made by onclose.
StopByClose ==
  \E i \in Ids : \E r \in CloseReasons : \E c \in CloseCodes : \E t \in ThrowPoints :
    OnClose(i, r, c, t)

\* C19: a stopSession that passes the latch and does not throw closes the
\* connection exactly when a handle is held and the call does not come from
\* onclose, and clears the handle in both cases; close() is only ever issued
\* on the held handle, never by the close callback's stop and never on a
\* connection whose close event was already delivered.
C19_CloseOnlyWhenHeldAndNotByClose ==
  [][/\ \A i \in Ids :
          released'[i].session # released[i].session
             => sessionRef = i /\ conn[i] # "closed" /\ ~StopByClose
     /\ (StopByUserOrError /\ ~isStoppingRef /\ lastOp'.outcome # "threw")
          => /\ sessionRef' = NoRef
             /\ sessionRef # NoRef
                  => released'[sessionRef].session = released[sessionRef].session + 1
     /\ (StopByClose /\ ~isStoppingRef /\ lastOp'.outcome # "threw")
          => sessionRef' = NoRef /\ \A i \in Ids : released'[i].session = released[i].session]_vars

\* C20: after every stopSession that ran to completion, called by the
\* Terminate button, by onerror or by onclose, the answer-in-progress flag is
\* false.
C20_StopClearsInProgress ==
  (lastOp.op \in StopOps /\ lastOp.outcome = "done") => ~responseInProgressRef

\* A stop called by onerror has completed while an answer was being streamed.
C20_Witness ==
  /\ lastOp.op = "onerror" /\ lastOp.outcome = "done"
  /\ activeResponse.present /\ ~activeResponse.isComplete
  /\ ~responseInProgressRef
  /\ IdleStatus

\* A step in which a captured audio frame is handed to a remote session.
FrameForwarded == NextAudio /\ lastOp'.outcome = "sent"

\* C21: once stopSession has completed, no captured audio frame is forwarded
\* to a remote session until a later start has reached its onopen callback.
\* A completed stop leaves the status not active and only onopen makes it
\* active again, so every forwarded frame is forwarded while the status is
\* active.
C21_NoFrameAfterStop == [][FrameForwarded => sessionState.isActive]_vars

\* C23: appendChunkWithSpacing returns the chunk when the accumulated text is
\* empty and the accumulated text when the chunk is empty; otherwise the
\* result is the two joined with one space or with nothing, with nothing when
\* a boundary character is a line feed; and ("end.", "Next") gives
\* "end. Next", ("foo", "") gives "foo", ("", "bar") gives "bar".
C23_AppendWithSpacing ==
  Applied("appendChunkWithSpacing") =>
    LET current == call.arg[1]
        chunk == call.arg[2]
        prevChar == SubSeq(current, Len(current), Len(current))
        nextChar == SubSeq(chunk, 1, 1)
    IN /\ current = "" => call.result = chunk
       /\ chunk = "" => call.result = current
       /\ (current # "" /\ chunk # "") =>
            /\ call.result \in {current \o " " \o chunk, current \o chunk}
            /\ (prevChar = "\n" \/ nextChar = "\n") => call.result = current \o chunk
       /\ (current = "end." /\ chunk = "Next") => call.result = "end. Next"
       /\ (current = "foo" /\ chunk = "") => call.result = "foo"
       /\ (current = "" /\ chunk = "bar") => call.result = "bar"

\* The positions of the marker pieces of a text given by its pieces.
MarkerPositions(pieces) == {i \in 1..Len(pieces) : pieces[i] \notin Contents}

\* The key of the marker piece at position i.
KeyOfPiece(pieces, i) == CHOOSE key \in SectionKeys : pieces[i] = Marker(key)

\* The content that follows position i up to the next marker piece or the
\* end (with i = 0: the content before the first marker).
RECURSIVE ContentAfter(_, _)
ContentAfter(pieces, i) ==
  IF i + 1 > Len(pieces) \/ pieces[i + 1] \notin Contents THEN ""
  ELSE pieces[i + 1] \o ContentAfter(pieces, i + 1)

\* The values of a sequence.
Range(seq) == {seq[i] : i \in 1..Len(seq)}

\* C24: extractSections always returns the four section keys.  A text with no
\* marker goes, trimmed, to EXPLANATION and the other sections are empty.
\* Otherwise every non-blank block that follows a marker is found, trimmed,
\* in the section of that marker, for markers in any order and repetition,
\* and a section holds nothing but blocks of its own markers.
\* "[TECHNICAL_DEFINITION]A[EXPLANATION]B" gives TECHNICAL_DEFINITION "A",
\* EXPLANATION "B", EXAMPLES "" and FLOW_DIAGRAM "".
C24_ParseSections ==
  Applied("extractSections") =>
    LET pieces == call.arg
        sections == call.result
        at == MarkerPositions(pieces)
        BlocksOf(key) == {Trim(ContentAfter(pieces, i)) :
                            i \in {j \in at : KeyOfPiece(pieces, j) = key}} \ {""}
    IN /\ DOMAIN sections = SectionKeys
       /\ at = {} =>
            sections = [key \in SectionKeys |->
                          IF key = "EXPLANATION" THEN Trim(Spell(pieces)) ELSE ""]
       /\ at # {} =>
            \A key \in SectionKeys :
              /\ \A block \in BlocksOf(key) : Includes(sections[key], block)
              /\ Range(SplitParagraphs(sections[key])) \ {""} \subseteq BlocksOf(key)
              /\ BlocksOf(key) = {} => sections[key] = ""
       /\ pieces = <<"[TECHNICAL_DEFINITION]", "A", "[EXPLANATION]", "B">> =>
            sections = [TECHNICAL_DEFINITION |-> "A", EXPLANATION |-> "B",
                        EXAMPLES |-> "", FLOW_DIAGRAM |-> ""]

\* A marker is repeated with another block: the section holds both blocks.
C24_Witness ==
  /\ Applied("extractSections")
  /\ call.arg = <<"[EXPLANATION]", "B", "[EXPLANATION]", "A">>
  /\ call.result["EXPLANATION"] = "B\n\nA"

\* C25: when a text holds at least one marker, the non-blank content before
\* the first marker is found in the EXPLANATION section.
C25_LeadingTextIsExplanation ==
  Applied("extractSections") =>
    LET pieces == call.arg
        leading == Trim(ContentAfter(pieces, 0))
    IN (MarkerPositions(pieces) # {} /\ leading # "") =>
         Includes(call.result["EXPLANATION"], leading)

\* The number of positions of text at which sub occurs.
Occurrences(text, sub) ==
  Cardinality({i \in 1..Len(text) :
                 i + Len(sub) - 1 <= Len(text) /\ SubSeq(text, i, i + Len(sub) - 1) = sub})

\* C26: no block is stored twice in a section: every block appended to a
\* section occurs exactly once in the section's text, also when a later
\* block is a longer text that contains an earlier one.
C26_NoBlockTwice ==
  Applied("extractSections") =>
    \A key \in SectionKeys :
      \A block \in Range(SplitParagraphs(call.result[key])) \ {""} :
        Occurrences(call.result[key], block) = 1

\* The subsequence of seq at the positions in keep.
RECURSIVE Pick(_, _, _)
Pick(seq, keep, i) ==
  IF i > Len(seq) THEN <<>>
  ELSE (IF i \in keep THEN <<seq[i]>> ELSE <<>>) \o Pick(seq, keep, i + 1)

\* The two token sets share at least 80% of the smaller one.
SharesMostTokens(na, nb) ==
  LET ta == Tokens(na)
      tb == Tokens(nb)
      smaller == IF Cardinality(ta) < Cardinality(tb) THEN Cardinality(ta)
                 ELSE Cardinality(tb)
  IN 5 * Cardinality(ta \cap tb) >= 4 * smaller

\* The normalized forms of a and b are identical, one contains the other, or
\* they share at least 80% of the tokens of the smaller token set.
Resembles(a, b) ==
  LET na == normalizeForCompare(a)
      nb == normalizeForCompare(b)
  IN na = nb \/ Includes(na, nb) \/ Includes(nb, na) \/ SharesMostTokens(na, nb)

\* C27 as stated: dedupeTechnicalDefinition keeps the paragraphs in their
\* order and drops a paragraph exactly when an already-kept paragraph
\* resembles it; every other non-empty paragraph is kept with its text
\* unaltered, so the first non-empty paragraph is always kept.
C27_DropsExactlyNearDuplicates ==
  Applied("dedupeTechnicalDefinition") =>
    LET paragraphs == call.arg
        n == Len(paragraphs)
    IN \E keep \in SUBSET (1..n) :
         /\ \A i \in 1..n :
              i \in keep <=> /\ paragraphs[i] # ""
                             /\ ~\E j \in keep : j < i /\ Resembles(paragraphs[j], paragraphs[i])
         /\ call.result = JoinParagraphs(Pick(paragraphs, keep, 1))

\* A paragraph that is nothing but the word "or", with "." or "," at most.
OnlyOr(p) == p \in {w \o e : w \in {"or", "Or", "oR", "OR"}, e \in {"", ".", ","}}

\* C27 as amended: the paragraphs are trimmed, and the empty ones and those
\* that are nothing but "or" are dropped; of the others, in their order, a
\* paragraph is dropped exactly when an already-kept paragraph resembles it
\* and both normalized forms are non-empty; every other one is kept with its
\* trimmed text, so the first of them is always kept.
C27_DedupeKeepsDistinct ==
  Applied("dedupeTechnicalDefinition") =>
    LET paragraphs == [i \in 1..Len(call.arg) |-> Trim(call.arg[i])]
        n == Len(paragraphs)
        Counts(i) == paragraphs[i] # "" /\ ~OnlyOr(paragraphs[i])
        Duplicates(a, b) == /\ normalizeForCompare(a) # ""
                            /\ normalizeForCompare(b) # ""
                            /\ Resembles(a, b)
    IN \E keep \in SUBSET (1..n) :
         /\ \A i \in 1..n :
              i \in keep <=> /\ Counts(i)
                             /\ ~\E j \in keep : j < i /\ Duplicates(paragraphs[j], paragraphs[i])
         /\ \A i \in 1..n : (Counts(i) /\ \A j \in 1..(i - 1) : ~Counts(j)) => i \in keep
         /\ call.result = JoinParagraphs(Pick(paragraphs, keep, 1))

\* A paragraph sharing all tokens of the first one was dropped and one
\* sharing half of them was kept.
C27_Witness ==
  /\ Applied("dedupeTechnicalDefinition")
  /\ call.arg = <<"a b", "b a c", "a d">>
  /\ call.result = "a b\n\na d"

C29_SavePersistsAndUpdates ==
  [][saveResume =>
       /\ jarvis_resume' = resumeContent
       /\ resumeContent' = resumeContent
       /\ Len(lastSent') <= 1
       /\ (lastSent' # <<>>) <=> (sessionState.isActive /\ sessionRef # NoRef)
       /\ lastSent' # <<>> =>
            lastSent'[1] = [to |-> sessionRef, kind |-> "update", text |-> resumeContent]
       /\ (~sessionState.isActive \/ sessionState.isConnecting) => lastSent' = <<>>]_vars

\* An edited text was saved while the session was active: it is stored and
\* was sent to the held session.
C29_Witness ==
  /\ lastOp = Op("saveResume", "sent", NoRef)
  /\ sessionState.isActive /\ sessionRef # NoRef
  /\ jarvis_resume = "cv"
  /\ lastSent = <<[to |-> sessionRef, kind |-> "update", text |-> "cv"]>>

\* C30: a turn-complete signal is never lost: every message that carries it
\* marks the turn complete and clears the answer-in-progress flag, whatever
\* else the message carries (a fragment with a non-ASCII character, a chunk
\* that sanitizes to the empty string).
C30_TurnCompleteNeverLost ==
  [][TurnCompleteMsg => lastTurnWasCompleteRef' /\ ~responseInProgressRef']_vars

\* C22: with AnsweringMode off, after the fragments of a question,
\* turn-complete, the chunks of its answer and turn-complete, the published
\* question is the concatenation of the fragments, the published answer is
\* marked complete, and extractSections of its text gives every labelled block
\* to its section.  Fragments "What is", " caching?" and chunks
\* "[TECHNICAL_DEFINITION]A cache stores.", " [EXPLANATION]Detail." give the
\* question "What is caching?", TECHNICAL_DEFINITION "A cache stores.",
\* EXPLANATION "Detail." and isComplete true.
C22_TurnScenario ==
  Applied("scenario") =>
    LET fragments == call.result.fragments
        blocks == call.result.blocks
        sections == extractSections(activeResponse.text)
        Expected(key) ==
          IF \E k \in 1..Len(blocks) : blocks[k].key = key
          THEN Trim(blocks[CHOOSE k \in 1..Len(blocks) : blocks[k].key = key].content)
          ELSE ""
    IN /\ currentQuestion = Spell(fragments)
       /\ activeResponse.present /\ activeResponse.isComplete
       /\ \A key \in SectionKeys : sections[key] = Expected(key)
       /\ (fragments = <<"What is", " caching?">>
             /\ blocks = <<Block("", "TECHNICAL_DEFINITION", "A cache stores."),
                           Block(" ", "EXPLANATION", "Detail.")>>) =>
            /\ currentQuestion = "What is caching?"
            /\ sections = [TECHNICAL_DEFINITION |-> "A cache stores.",
                           EXPLANATION |-> "Detail.",
                           EXAMPLES |-> "", FLOW_DIAGRAM |-> ""]

\* The scenario of the spec has been delivered to the end.
C22_Witness ==
  /\ Applied("scenario")
  /\ call.result.fragments = <<"What is", " caching?">>
  /\ currentQuestion = "What is caching?"
  /\ activeResponse = Item("[TECHNICAL_DEFINITION]A cache stores.[EXPLANATION]Detail.", TRUE)
  /\ sessionState.isActive

\* C31: the locked topic is never the fixed non-English warning message, and
\* neither is the topic of a continuation request, whatever fragments
\* (rejected ones included), turn-completes and AnsweringMode toggles came
\* before.
C31_LockIsNeverTheWarning ==
  /\ lockedTopicRef # MsgEnglishOnly
  /\ \A k \in 1..Len(lastSent) :
       lastSent[k].kind = "continuation" => lastSent[k].topic # MsgEnglishOnly

\* C32: after a stop and a successful start, the first valid fragment of the
\* new session begins a fresh question: the published question is that
\* fragment alone, with nothing of the stopped session's question before it.
C32_NewSessionFreshQuestion ==
  (lastOp.op = "onmessage" /\ call.fn = "heard" /\ call.done /\ lastOp.id > 1) =>
     /\ currentQuestion = call.arg[1]
     /\ questionAccumulatorRef = call.arg[1]

\* C33: the in-flight stop latch is held only while a stopSession is
\* executing: every path out of stopSession, a throwing release step
\* included, clears it, so a stopSession called while none is running is
\* never turned into a no-op.
C33_LatchOnlyWhileStopping ==
  /\ [](isStoppingRef => pendingStops # <<>>)
  /\ [][(lastOp'.op \in StopOps /\ lastOp'.outcome = "ignored")
          => pendingStops # <<>>]_vars

\* A release step of a stopSession threw, and the latch is clear.
C33_Witness ==
  /\ lastOp.op \in StopOps
  /\ lastOp.outcome = "threw"
  /\ ~isStoppingRef
  /\ pendingStops = <<>>

\* C34: when the environment answers every request, a session that entered
\* Connecting eventually becomes Active or becomes Idle with a non-null
\* error: it never stays Connecting forever.
C34_ConnectingEnds ==
  sessionState.isConnecting ~>
    (sessionState.isActive \/ (~sessionState.isConnecting /\ sessionState.error # Null))

\* A message whose chunk was appended to the answer.
AcceptedChunkMsg == lastOp'.op = "onmessage" /\ lastOp'.outcome = "chunk"

\* C35: while AnsweringMode stays on, the answer text is append-only: every
\* step, and so every accepted chunk, leaves the text it found as a prefix of
\* the new text, and the first chunk of a new answer (none is in progress)
\* follows existing non-empty text after exactly one blank line.
C35_AppendOnlyWhenAnswering ==
  [][(isUserAnsweringRef /\ isUserAnsweringRef') =>
       /\ StartsWith(streamingTextRef', streamingTextRef)
       /\ (AcceptedChunkMsg /\ ~responseInProgressRef /\ streamingTextRef # "") =>
            \E c \in Chunks :
              /\ sanitizeModelOutput(c) # ""
              /\ ~StartsWith(sanitizeModelOutput(c), "\n")
              /\ TrimEnd(streamingTextRef) = streamingTextRef
              /\ streamingTextRef' =
                   streamingTextRef \o "\n\n" \o sanitizeModelOutput(c)]_vars

\* In AnsweringMode the first chunk of a new answer has been put after the
\* answer that was there.
C35_Witness ==
  /\ isUserAnsweringRef
  /\ lastOp.op = "onmessage" /\ lastOp.outcome = "chunk"
  /\ streamingTextRef = "A\n\nA"
  /\ activeResponse.present /\ activeResponse.text = "A\n\nA"

C37_StatusWellFormed ==
  /\ ~(sessionState.isActive /\ sessionState.isConnecting)
  /\ sessionState.error # Null =>
       ~sessionState.isActive /\ ~sessionState.isConnecting

\* onopen has made the session Active: not Connecting, no error.
C37_Witness ==
  /\ lastOp.op = "onopen"
  /\ sessionState.isActive
  /\ ~sessionState.isConnecting
  /\ sessionState.error = Null

\* C38: only toggleAnsweringMode changes the AnsweringMode flag; start, stop,
\* open, message, error and close events leave it as it is, so a mode that
\* was on when a session stopped is still on in the next one: microphone
\* frames are suppressed and transcription is ignored.
C38_OnlyToggleChangesMode ==
  [][/\ isUserAnsweringRef' # isUserAnsweringRef => lastOp'.op = "toggle"
     /\ (isUserAnsweringRef /\ lastOp'.op = "audio") =>
          lastOp'.outcome = "suppressed" /\ lastSent' = <<>>
     /\ (isUserAnsweringRef /\ lastOp'.op = "onmessage") =>
          UNCHANGED <<questionAccumulatorRef, currentQuestion, lockedTopicRef>>]_vars

\* Session 1 was stopped and session 2 is Active with the mode still on: a
\* microphone frame of session 2 has been suppressed.
C38_Witness ==
  /\ isUserAnsweringRef
  /\ lastOp = Op("audio", "suppressed", 2)
  /\ conn[1] = "closed"
  /\ sessionState.isActive /\ sessionRef = 2

\* A startSession that passes its guards and goes on to connect.
StartAccepted == lastOp'.op = "start" /\ lastOp'.outcome = "awaitMic"

\* C39: the Knowledge Context injected into the initial instruction of a
\* session at start equals the value persisted in the local preference at
\* that time: an edit that was discarded instead of saved is never injected.
C39_InjectedIsPersisted ==
  [][(StartAccepted /\ ~isResumeModalOpen) =>
       InjectedContext = (IF jarvis_resume # "" THEN jarvis_resume ELSE "N/A")]_vars

====
